---- MODULE Spec2Model ----
(***************************************************************************)
(* Fencing client library (lib/fencing/st_client.c): the fence action      *)
(* executor (stonith_action_t, internal_stonith_action_execute and its     *)
(* retry policy) and the IPC session with the fencer (stonith_t).          *)
(***************************************************************************)
EXTENDS Integers, Sequences, FiniteSets, TLC

(* ------------------------------ bounds --------------------------------- *)
MaxTimeout == 3     \* largest declared timeout (seconds) given to stonith_action_create
NegTimeout == 1     \* declared timeouts start at -NegTimeout
MaxRetries == 3     \* largest pcmk_<action>_retries value
MaxExit == 1        \* largest exit status of the agent
ArgLen == 2         \* strlen(action->args)
MaxTime == MaxTimeout + 6   \* time(NULL) stops advancing here
PolicyMaxTimeout == 10      \* largest timeout (and elapsed time) the policy alone is tried on
MaxCalls == 3               \* stonith_send_command calls made on one session
MaxSendTimeout == 1         \* largest timeout given to stonith_send_command
MaxRegId == 2               \* largest call id a callback is registered for
MaxArgs == 3                \* most parameters a device is configured with
MaxRscLen == 2              \* longest resource id made of plain characters
MaxOpLen == 3               \* longest operation name

(* ------------------------- program constants --------------------------- *)
FAILURE_MAX_RETRIES == 2
KillDelay == 5
pcmk_ok == 0
ETIME == 62
ECONNABORTED == 103
ENODATA == 61
ETIMEDOUT == 110
EOPNOTSUPP == 95
pcmk_err_generic == 201
ECOMM == 70
EPROTO == 71
ECHILD == 10
SIGTERM == 15
SIGKILL == 9
SIGSEGV == 11
GuintSecs == 4294967
ENOTCONN == 107
EINVAL == 22
ENOMSG == 42
INT_MAX == 2147483647
FallbackGrace == 60
ENOTUNIQ == 76

TimedOutPhrase == "imed out"
UnrecognisedPhrase == "Unrecognised action"

strstr(text, phrase) == phrase \in text

RetryCounts == 0 .. MaxRetries
ExitCodes == 0 .. MaxExit

VARIABLES
    action,       \* the stonith_action_t record
    destroyed,    \* stonith__destroy_action(action) was called
    child,        \* the agent process of the current attempt
    child_watch,  \* mainloop_child_add registered stonith_action_async_done
    timers,       \* deadlines of the two glib timeout sources
    pc,           \* position of the parent
    poll_timeout, \* local "timeout" of the synchronous poll loop
    now,          \* time(NULL), in seconds
    ret,          \* value returned by the last internal_stonith_action_execute
    done,         \* invocations of action->done_cb
    last,         \* how the attempt that just ended went (until the next starts)
    sig,          \* escalation signals sent during the current attempt
    open_fds,     \* pipe descriptors the parent holds open
    stonith,      \* the stonith_t session: state and call_id
    native,       \* its stonith_private_t: token, ipc, mainloop source
    ipc_up,       \* the channel to the fencer is connected (crm_ipc_connected)
    net,          \* what was transmitted to the fencer
    api,          \* the last API call of the session and what it returned
    registry,     \* stonith_op_callback_table: call id -> stonith_callback_client_t
    sources,      \* the glib timeout sources armed for each call id (ms)
    op_callback,  \* private->op_callback, the session-wide callback
    notify_list,  \* private->notify_list, the subscribers in registration order
    invoked,      \* the callbacks the last step invoked, in order
    fcall         \* a call of a helper function: its arguments and its result

runner_vars == <<action, destroyed, child, child_watch, timers, pc, poll_timeout,
                 now, ret, done, last, sig, open_fds>>

registry_vars == <<registry, sources, op_callback, notify_list>>

session_vars == <<stonith, native, ipc_up, net, api, registry_vars, invoked>>

vars == <<runner_vars, session_vars, fcall>>

NoChild == [st |-> "none", code |-> 0, signo |-> 0, err |-> {},
            stdin_bytes |-> 0, stdin_eof |-> FALSE, input |-> "unread"]

NoSig == [start |-> 0, r |-> 0, armed |-> 0, nterm |-> 0, nkill |-> 0,
          term_at |-> -1, kill_at |-> -1, polls |-> 0]

NoTimers == [term |-> 0, kill |-> 0]

NoAttempt == [async |-> 0, kind |-> "none", rc |-> 0, ret |-> 0, e |-> 0, r |-> 0,
              tries |-> 0, lts |-> 0, signo |-> 0, code |-> 0, err |-> {},
              polls |-> 0, inloop |-> FALSE, killed |-> FALSE]

\* stonith_action_create: timeout = remaining_timeout = timeout; max_retries
\* is FAILURE_MAX_RETRIES unless pcmk_<action>_retries is given
stonith_action_create(timeout, retries) ==
    [async |-> 0, timeout |-> timeout, remaining_timeout |-> timeout,
     max_retries |-> retries, tries |-> 0, initial_start_time |-> 0,
     fd_stdout |-> 0, fd_stderr |-> 0, last_timeout_signo |-> 0,
     timer_sigterm |-> 0, timer_sigkill |-> 0,
     pid |-> 0, rc |-> 0, error |-> {}]

\* a reset that leaves the stored descriptors and the timer ids behind
stonith_action_clear_tracking_data_KeepHandles(a) ==
    [a EXCEPT !.error = {}, !.rc = 0, !.pid = 0, !.last_timeout_signo = 0]

stonith_action_clear_tracking_data(a) ==
    [a EXCEPT !.timer_sigterm = 0, !.timer_sigkill = 0,
              !.fd_stdout = 0, !.fd_stderr = 0,
              !.error = {}, !.rc = 0, !.pid = 0, !.last_timeout_signo = 0]

(* ---------------------------- retry policy ----------------------------- *)
\* a budget of 70% that also admits the boundary
WithinBudget_Inclusive(diff, timeout) == diff * 10 <= timeout * 7

\* diff < (action->timeout * 0.7), exactly, in integers
WithinBudget(diff, timeout) == diff * 10 < timeout * 7

\* a policy that forgets the time budget and the time-out rule
update_remaining_timeout_NoBudget(a, t) ==
    IF a.tries >= a.max_retries
    THEN [a EXCEPT !.remaining_timeout = 0]
    ELSE [a EXCEPT !.remaining_timeout = IF a.timeout > 0 THEN a.timeout ELSE 1]

\* a policy whose attempt limit is off by one
update_remaining_timeout_OffByOne(a, t) ==
    LET diff == t - a.initial_start_time IN
    IF a.tries > a.max_retries
    THEN [a EXCEPT !.remaining_timeout = 0]
    ELSE IF a.rc # -ETIME /\ WithinBudget(diff, a.timeout)
         THEN [a EXCEPT !.remaining_timeout = a.timeout - diff]
         ELSE [a EXCEPT !.remaining_timeout = 0]

update_remaining_timeout(a, t) ==
    LET diff == t - a.initial_start_time IN
    IF a.tries >= a.max_retries
    THEN [a EXCEPT !.remaining_timeout = 0]
    ELSE IF a.rc # -ETIME /\ WithinBudget(diff, a.timeout)
         THEN [a EXCEPT !.remaining_timeout = a.timeout - diff]
         ELSE [a EXCEPT !.remaining_timeout = 0]

\* the gboolean update_remaining_timeout returns
RetryAllowed(a, t) == update_remaining_timeout(a, t).remaining_timeout # 0

(* ---------------------------- IPC session ------------------------------ *)
NULL == "NULL"

\* signed 32-bit increment (stonith->call_id++)
Inc32(x) == IF x = INT_MAX THEN (0 - INT_MAX) - 1 ELSE x + 1

stonith_api_new == [state |-> "disconnected", call_id |-> 1]

NoNative == [token |-> NULL, ipc |-> NULL, source |-> NULL]

\* the notification types a caller subscribes to, and its callbacks
Events == {"st_notify_fence", "st_notify_disconnect"}
NotifyFns == {"notify1", "notify2"}

\* ctl: the last notification control message the fencer got for each event
NoNet == [sent |-> 0, calls |-> 0, bad |-> FALSE,
          req |-> [call_id |-> 0, op |-> NULL, opts |-> {}, timeout |-> 0],
          ctl |-> [e \in Events |-> "none"]]

\* a message from the fencer as stonith_dispatch_internal reads it: whether
\* string2xml parses it, its F_TYPE, and the attributes the handlers look at
NoMsg == [parsed |-> FALSE, type |-> NULL, has_id |-> FALSE, id |-> 0,
          has_rc |-> FALSE, rc |-> 0, timeout |-> 0, subt |-> NULL]

\* no helper function is being called
NoCall == [fn |-> "none"]

NoApi == [fn |-> "none", rc |-> 0, output |-> NULL, op |-> NULL,
          pre_state |-> "disconnected", pre_call_id |-> 0, transmitted |-> FALSE,
          call_id |-> 0, opts |-> {},
          want_output |-> FALSE, connected |-> FALSE,
          reply |-> [id |-> 0, has_rc |-> FALSE, rc |-> 0],
          got_reply |-> FALSE, freed |-> 0]

\* the keys of stonith_op_callback_table that are looked at
RegKeys == 0 .. MaxRegId

\* a stonith_callback_client_t; timer is the interval (ms) of the glib source
\* blob->timer->ref stands for, 0 when there is none
NoEntry == [present |-> FALSE, only_success |-> FALSE, allow_timeout_updates |-> FALSE,
            user_data |-> NULL, timer |-> 0]

\* g_hash_table_new_full(g_direct_hash, g_direct_equal, NULL, stonith_destroy_op_callback)
EmptyRegistry == [k \in RegKeys |-> NoEntry]

NoSources == [k \in RegKeys |-> <<>>]

(* ------------------------- pipe descriptors ---------------------------- *)
\* p_read_fd .. c_stderr_fd: the ends of the three pipes of one attempt
LocalFds == {"p_read_fd", "p_write_fd", "p_stderr_fd",
             "c_read_fd", "c_write_fd", "c_stderr_fd"}

\* the descriptors an action record holds in fd_stdout and fd_stderr
HeldFds(a) == {f \in {"fd_stdout", "fd_stderr"} : a[f] # 0}

\* what stays open once the locals in closed were closed and the record
\* went from a to b
Remaining(open, closed, a, b) == ((open \ closed) \ HeldFds(a)) \cup HeldFds(b)

(* ------------------------- the agent process --------------------------- *)

\* the agent reads its standard input up to end-of-file, which it sees once
\* the parent closed p_write_fd; it then holds what the parent had written
ChildReadParams ==
    /\ child.st = "running"
    /\ child.input = "unread"
    /\ child.stdin_eof
    /\ child' = [child EXCEPT
                   !.input = IF child.stdin_bytes = ArgLen THEN "full" ELSE "truncated"]
    /\ UNCHANGED <<open_fds, action, destroyed, child_watch, timers, pc, poll_timeout,
                   now, ret, done, last, sig>>
    /\ UNCHANGED <<session_vars, fcall>>

\* the agent (or the child before execlp succeeded) exits with a status
ChildExit ==
    LET OtherText == "other"
        \* what the agent may have written to stderr: the set of phrases the text
        \* contains; the empty set is no output at all (read_output returns NULL)
        StderrTexts ==
            { {}, {OtherText}, {TimedOutPhrase}, {UnrecognisedPhrase},
              {TimedOutPhrase, UnrecognisedPhrase} }
    IN
    /\ child.st = "running"
    /\ pc \in {"write", "mainloop", "poll"}
    /\ \E code \in ExitCodes, err \in StderrTexts :
          child' = [child EXCEPT !.st = "zombie", !.code = code, !.err = err]
    /\ UNCHANGED <<open_fds, action, destroyed, child_watch, timers, pc, poll_timeout,
                   now, ret, done, last, sig>>
    /\ UNCHANGED <<session_vars, fcall>>

\* the agent is terminated by a signal nobody of this program sent
ChildCrash ==
    /\ child.st = "running"
    /\ pc \in {"write", "mainloop", "poll"}
    /\ child' = [child EXCEPT !.st = "zombie", !.signo = SIGSEGV]
    /\ UNCHANGED <<open_fds, action, destroyed, child_watch, timers, pc, poll_timeout,
                   now, ret, done, last, sig>>
    /\ UNCHANGED <<session_vars, fcall>>

\* kill(-pid, signo) as seen by the child; SIGTERM may be caught or ignored
Killed(c, signo) == IF c.st = "running" THEN [c EXCEPT !.st = "zombie", !.signo = signo] ELSE c

(* --------------------- how an attempt is completed --------------------- *)
HistEntry(a, kind, rcret, c, inloop, killed) ==
    [async |-> a.async, kind |-> kind, rc |-> a.rc, ret |-> rcret,
     e |-> now - a.initial_start_time, r |-> sig.r, tries |-> a.tries,
     lts |-> a.last_timeout_signo, signo |-> c.signo, code |-> c.code,
     err |-> c.err, polls |-> sig.polls, inloop |-> inloop, killed |-> killed]

\* stonith__execute: do { rc = internal_stonith_action_execute(action); }
\* while ((rc != pcmk_ok) && update_remaining_timeout(action));
SyncReturn(a, rcret, entry) ==
    /\ last' = entry
    /\ ret' = rcret
    /\ IF rcret # pcmk_ok
       THEN /\ action' = update_remaining_timeout(a, now)
            /\ pc' = IF RetryAllowed(a, now) THEN "exec" ELSE "done"
       ELSE /\ action' = a
            /\ pc' = "done"
    /\ UNCHANGED <<done, destroyed>>

\* done_cb(pid, action->rc, action->output, action->userdata), then
\* stonith__destroy_action(action)
CallbackAndDestroy(a) ==
    /\ action' = stonith_action_clear_tracking_data(a)
    /\ done' = [calls |-> done.calls + 1, rc |-> a.rc, tries |-> a.tries]
    /\ destroyed' = TRUE
    /\ pc' = "done"

\* a completion that also reports every failed attempt that is retried
AsyncReturn_CallbackOnRetry(a, entry) ==
    /\ last' = entry
    /\ ret' = ret
    /\ IF a.rc # pcmk_ok /\ RetryAllowed(a, now)
       THEN /\ action' = update_remaining_timeout(a, now)
            /\ pc' = "exec"
            /\ done' = [calls |-> done.calls + 1, rc |-> a.rc, tries |-> a.tries]
            /\ UNCHANGED destroyed
       ELSE CallbackAndDestroy(IF a.rc # pcmk_ok
                               THEN update_remaining_timeout(a, now) ELSE a)

\* the tail of stonith_action_async_done
AsyncReturn(a, entry) ==
    /\ last' = entry
    /\ ret' = ret
    /\ IF a.rc # pcmk_ok /\ RetryAllowed(a, now)
       THEN /\ action' = update_remaining_timeout(a, now)
            /\ pc' = "exec"
            /\ UNCHANGED <<done, destroyed>>
       ELSE CallbackAndDestroy(IF a.rc # pcmk_ok
                               THEN update_remaining_timeout(a, now) ELSE a)

\* internal_stonith_action_execute left through the fail label with rcret
StartFailed(a, rcret, c) ==
    LET entry == HistEntry(a, "startfail", rcret, c, FALSE, FALSE) IN
    IF a.async = 0
    THEN SyncReturn(a, rcret, entry)
    ELSE /\ last' = entry
         /\ ret' = rcret
         /\ IF a.tries > 1
            THEN \* called by stonith_action_async_done: rc != pcmk_ok falls
                 \* through to the callback
                 CallbackAndDestroy(a)
            ELSE \* stonith_action_execute_async returns rc to its caller
                 /\ action' = a
                 /\ pc' = "done"
                 /\ UNCHANGED <<done, destroyed>>

(* ------------------------ starting an attempt -------------------------- *)
stonith_action_execute_async ==
    /\ pc = "created"
    /\ action' = [action EXCEPT !.async = 1]
    /\ pc' = "exec"
    /\ UNCHANGED <<open_fds, destroyed, child, child_watch, timers, poll_timeout, now,
                   ret, done, last, sig>>
    /\ UNCHANGED <<session_vars, fcall>>

stonith__execute ==
    /\ pc = "created"
    /\ pc' = "exec"
    /\ UNCHANGED <<open_fds, action, destroyed, child, child_watch, timers, poll_timeout,
                   now, ret, done, last, sig>>
    /\ UNCHANGED <<session_vars, fcall>>

\* internal_stonith_action_execute up to fork()
Started(a) ==
    [stonith_action_clear_tracking_data(a) EXCEPT
        !.initial_start_time = IF a.tries = 0 THEN now ELSE a.initial_start_time,
        !.tries = a.tries + 1]

ForkOk ==
    LET
        \* the forked child: a new process group leader that execs the agent
        ForkedChild == [NoChild EXCEPT !.st = "running"]
    IN
    /\ pc = "exec"
    /\ action' = [Started(action) EXCEPT !.pid = 1]
    /\ child' = ForkedChild
    /\ sig' = [NoSig EXCEPT !.start = now, !.r = action.remaining_timeout]
    /\ timers' = NoTimers
    /\ open_fds' = Remaining(open_fds, {}, action, action') \cup LocalFds
    /\ pc' = "write"
    /\ last' = NoAttempt
    /\ UNCHANGED <<destroyed, child_watch, poll_timeout, now, ret, done>>
    /\ UNCHANGED <<session_vars, fcall>>

\* pipe() fails (rc stays -EPROTO) or fork() fails (rc = -ECHILD)
ForkFail ==
    /\ pc = "exec"
    /\ \E rcret \in {-EPROTO, -ECHILD} :
          StartFailed(Started(action), rcret, NoChild)
    /\ sig' = [NoSig EXCEPT !.start = now, !.r = action.remaining_timeout]
    /\ timers' = NoTimers
    /\ child' = NoChild
    /\ open_fds' = Remaining(open_fds, LocalFds, action, action')
    /\ UNCHANGED <<child_watch, poll_timeout, now>>
    /\ UNCHANGED <<session_vars, fcall>>

\* g_timeout_add takes a guint of milliseconds: a negative number of seconds
\* wraps to about 49 days
Interval(secs) == IF secs >= 0 THEN secs ELSE GuintSecs + secs

\* a SIGKILL timer armed one second early
KillInterval_Early(r) == Interval(r + KillDelay - 1)

KillInterval(r) == Interval(r + KillDelay)

\* the whole blob was written: close(p_write_fd) and go on
WriteArgsOk ==
    LET TermInterval(r) == Interval(r)
    IN
    /\ pc = "write"
    /\ child' = [child EXCEPT !.stdin_bytes = ArgLen, !.stdin_eof = TRUE]
    /\ IF action.async = 1
       THEN /\ action' = [action EXCEPT
                  !.fd_stdout = 1, !.fd_stderr = 1, !.last_timeout_signo = 0,
                  !.timer_sigterm = IF action.remaining_timeout # 0 THEN 1 ELSE 0,
                  !.timer_sigkill = IF action.remaining_timeout # 0 THEN 2 ELSE 0]
            /\ timers' = IF action.remaining_timeout # 0
                         THEN [term |-> now + TermInterval(action.remaining_timeout),
                               kill |-> now + KillInterval(action.remaining_timeout)]
                         ELSE NoTimers
            /\ sig' = [sig EXCEPT !.armed = IF action.remaining_timeout # 0 THEN 2 ELSE 0]
            /\ child_watch' = TRUE
            /\ ret' = pcmk_ok
            /\ pc' = "mainloop"
            /\ open_fds' = Remaining(open_fds, LocalFds, action, action')
            /\ UNCHANGED poll_timeout
       ELSE /\ poll_timeout' = action.remaining_timeout + 1
            /\ pc' = "poll"
            /\ open_fds' = open_fds \ {"p_write_fd"}
            /\ UNCHANGED <<action, timers, sig, child_watch, ret>>
    /\ UNCHANGED <<destroyed, now, done, last>>
    /\ UNCHANGED <<session_vars, fcall>>

\* total != len: -ECOMM when the last write returned >= 0, else -EPROTO; the
\* fail label closes p_write_fd, the child is neither signalled nor waited for
WriteArgsShort ==
    /\ pc = "write"
    /\ \E total \in 0 .. (ArgLen - 1), rcret \in {-ECOMM, -EPROTO} :
          /\ child' = [child EXCEPT !.stdin_bytes = total, !.stdin_eof = TRUE]
          /\ StartFailed(action, rcret, child)
    /\ open_fds' = Remaining(open_fds, LocalFds, action, action')
    /\ UNCHANGED <<child_watch, timers, poll_timeout, now, sig>>
    /\ UNCHANGED <<session_vars, fcall>>

(* ----------------------- asynchronous mode ----------------------------- *)
TermDue == action.timer_sigterm > 0 /\ timers.term <= now
KillDue == action.timer_sigkill > 0 /\ timers.kill <= now
ExitPending == child_watch /\ child.st = "zombie"

\* one second passes while the mainloop has nothing to dispatch
Tick ==
    /\ pc = "mainloop"
    /\ now < MaxTime
    /\ ~TermDue /\ ~KillDue /\ ~ExitPending
    /\ now' = now + 1
    /\ UNCHANGED <<open_fds, action, destroyed, child, child_watch, timers, pc, poll_timeout,
                   ret, done, last, sig>>
    /\ UNCHANGED <<session_vars, fcall>>

st_child_term ==
    /\ pc = "mainloop"
    /\ TermDue
    /\ action' = [action EXCEPT !.timer_sigterm = 0, !.last_timeout_signo = SIGTERM]
    /\ \E dies \in BOOLEAN :
          child' = IF dies THEN Killed(child, SIGTERM) ELSE child
    /\ sig' = [sig EXCEPT !.nterm = sig.nterm + 1, !.term_at = now]
    /\ UNCHANGED <<open_fds, destroyed, child_watch, timers, pc, poll_timeout, now, ret,
                   done, last>>
    /\ UNCHANGED <<session_vars, fcall>>

st_child_kill ==
    /\ pc = "mainloop"
    /\ KillDue
    /\ action' = [action EXCEPT !.timer_sigkill = 0, !.last_timeout_signo = SIGKILL]
    /\ child' = Killed(child, SIGKILL)
    /\ sig' = [sig EXCEPT !.nkill = sig.nkill + 1, !.kill_at = now]
    /\ UNCHANGED <<open_fds, destroyed, child_watch, timers, pc, poll_timeout, now, ret,
                   done, last>>
    /\ UNCHANGED <<session_vars, fcall>>

\* a classification that looks at the terminating signal first
AsyncResult_SignalFirst(lts, signo, exitcode, err) ==
    IF signo # 0 THEN -ECONNABORTED
    ELSE IF lts # 0 THEN -ETIME
    ELSE IF exitcode > 0
         THEN IF err = {} THEN -ENODATA
              ELSE IF strstr(err, TimedOutPhrase) THEN -ETIMEDOUT
              ELSE IF strstr(err, UnrecognisedPhrase) THEN -EOPNOTSUPP
              ELSE -pcmk_err_generic
         ELSE exitcode

\* the result code stonith_action_async_done records
AsyncResult(lts, signo, exitcode, err) ==
    IF lts # 0 THEN -ETIME
    ELSE IF signo # 0 THEN -ECONNABORTED
    ELSE IF exitcode > 0
         THEN IF err = {} THEN -ENODATA
              ELSE IF strstr(err, TimedOutPhrase) THEN -ETIMEDOUT
              ELSE IF strstr(err, UnrecognisedPhrase) THEN -EOPNOTSUPP
              ELSE -pcmk_err_generic
         ELSE exitcode

stonith_action_async_done ==
    /\ pc = "mainloop"
    /\ ExitPending
    /\ LET a == [action EXCEPT
                    !.timer_sigterm = 0, !.timer_sigkill = 0,
                    !.error = child.err,
                    !.rc = AsyncResult(action.last_timeout_signo, child.signo,
                                       child.code, child.err)]
       IN AsyncReturn(a, HistEntry(a, "exit", pcmk_ok, child, FALSE, FALSE))
    /\ child' = [child EXCEPT !.st = "reaped"]
    /\ child_watch' = FALSE
    /\ timers' = NoTimers
    /\ open_fds' = Remaining(open_fds, {}, action, action')
    /\ UNCHANGED <<poll_timeout, now, sig>>
    /\ UNCHANGED <<session_vars, fcall>>

(* ------------------------ synchronous mode ----------------------------- *)
\* while (action->remaining_timeout < 0 || timeout > 0)
PollAgain == action.remaining_timeout < 0 \/ poll_timeout > 0

\* the result the synchronous path records once the loop is left:
\* <<action->rc, returned rc>>
SyncResult(tmo, c) ==
    IF tmo = 0 THEN <<-ETIME, -ECONNABORTED>>
    ELSE IF c.signo = 0 THEN <<-c.code, pcmk_ok>>
    ELSE <<-ECONNABORTED, -ECONNABORTED>>

\* waitpid(WNOHANG) found nothing: sleep(1); timeout--
SyncPollSleep ==
    /\ pc = "poll"
    /\ PollAgain
    /\ child.st # "zombie"
    /\ now < MaxTime
    /\ now' = now + 1
    /\ poll_timeout' = poll_timeout - 1
    /\ sig' = [sig EXCEPT !.polls = sig.polls + 1]
    /\ UNCHANGED <<open_fds, action, destroyed, child, child_watch, timers, pc, ret,
                   done, last>>
    /\ UNCHANGED <<session_vars, fcall>>

\* waitpid(WNOHANG) reaped the child: break; when timeout is 0 here the code
\* still sends SIGKILL and waits again (which fails, the status is kept)
SyncPollReaped ==
    /\ pc = "poll"
    /\ PollAgain
    /\ child.st = "zombie"
    /\ LET res == SyncResult(poll_timeout, child)
           a == [action EXCEPT !.error = child.err, !.rc = res[1]]
           s == [sig EXCEPT !.polls = sig.polls + 1,
                            !.nkill = IF poll_timeout = 0 THEN 1 ELSE 0]
       IN /\ sig' = s
          /\ SyncReturn(a, res[2],
                 [HistEntry(a, "exit", res[2], child, TRUE, poll_timeout = 0)
                    EXCEPT !.polls = s.polls])
    /\ child' = [child EXCEPT !.st = "reaped"]
    /\ open_fds' = Remaining(open_fds, LocalFds, action, action')
    /\ UNCHANGED <<child_watch, timers, poll_timeout, now>>
    /\ UNCHANGED <<session_vars, fcall>>

\* the loop condition failed: kill(-pid, SIGKILL), waitpid(pid, &status, 0)
SyncPollExpired ==
    /\ pc = "poll"
    /\ ~PollAgain
    /\ LET c == Killed(child, SIGKILL)
           res == SyncResult(poll_timeout, c)
           a == [action EXCEPT !.error = c.err, !.rc = res[1]]
       IN /\ sig' = [sig EXCEPT !.nkill = IF poll_timeout = 0 THEN 1 ELSE 0]
          /\ SyncReturn(a, res[2],
                 HistEntry(a, "exit", res[2], c, FALSE, poll_timeout = 0))
          /\ child' = [c EXCEPT !.st = "reaped"]
    /\ open_fds' = Remaining(open_fds, LocalFds, action, action')
    /\ UNCHANGED <<child_watch, timers, poll_timeout, now>>
    /\ UNCHANGED <<session_vars, fcall>>

(* ------------------------- specifications ------------------------------ *)
Init ==
    LET Timeouts == (0 - NegTimeout) .. MaxTimeout
    IN
    /\ \E t \in Timeouts, n \in RetryCounts \cup {FAILURE_MAX_RETRIES} :
          action = stonith_action_create(t, n)
    /\ destroyed = FALSE
    /\ child = NoChild
    /\ child_watch = FALSE
    /\ open_fds = {}
    /\ timers = NoTimers
    /\ pc = "created"
    /\ poll_timeout = 0
    /\ now = 0
    /\ ret = 0
    /\ done = [calls |-> 0, rc |-> 0, tries |-> 0]
    /\ last = NoAttempt
    /\ sig = NoSig
    /\ stonith = stonith_api_new
    /\ native = NoNative
    /\ ipc_up = FALSE
    /\ net = NoNet
    /\ api = NoApi
    /\ registry = EmptyRegistry
    /\ sources = NoSources
    /\ op_callback = NULL
    /\ notify_list = <<>>
    /\ invoked = <<>>
    /\ fcall = NoCall

Next ==
    \/ stonith_action_execute_async
    \/ stonith__execute
    \/ ForkOk
    \/ ForkFail
    \/ WriteArgsOk
    \/ WriteArgsShort
    \/ ChildReadParams
    \/ ChildExit
    \/ ChildCrash
    \/ Tick
    \/ st_child_term
    \/ st_child_kill
    \/ stonith_action_async_done
    \/ SyncPollSleep
    \/ SyncPollReaped
    \/ SyncPollExpired

Spec == Init /\ [][Next]_vars

\* the steps of the program itself (the caller, the blocked synchronous
\* caller, the mainloop and its clock); the agent is not obliged to do anything
ProgramStep ==
    \/ stonith_action_execute_async
    \/ stonith__execute
    \/ ForkOk
    \/ ForkFail
    \/ WriteArgsOk
    \/ WriteArgsShort
    \/ Tick
    \/ st_child_term
    \/ st_child_kill
    \/ stonith_action_async_done
    \/ SyncPollSleep
    \/ SyncPollReaped
    \/ SyncPollExpired

\* the program keeps running: a step it can take is eventually taken
FairSpec == Init /\ [][Next]_vars /\ WF_vars(ProgramStep)

(* ----------------------- IPC session operations ------------------------ *)

\* a disconnect that closes the channel but keeps the token
stonith_api_signoff_KeepToken(n) == [n EXCEPT !.source = NULL, !.ipc = NULL]

\* stonith_api_signoff
stonith_api_signoff(n) == [n EXCEPT !.source = NULL, !.ipc = NULL, !.token = NULL]

\* a registration that is content with a register reply without a token
SignonRc_TokenOptional(outcome) ==
    CASE outcome = "no_channel" -> -ENOTCONN
      [] outcome = "send_failed" -> -ECOMM
      [] outcome \in {"no_reply", "not_register"} -> -EPROTO
      [] outcome \in {"no_token", "registered"} -> pcmk_ok

SignonRc(outcome) ==
    CASE outcome = "no_channel" -> -ENOTCONN
      [] outcome = "send_failed" -> -ECOMM
      [] outcome \in {"no_reply", "not_register", "no_token"} -> -EPROTO
      [] outcome = "registered" -> pcmk_ok

Signon ==
    LET
        \* stonith_api_signon: the channel is opened (with or without the mainloop),
        \* the register request is sent and its reply decides the outcome
        SignonOutcomes == {"no_channel", "send_failed", "no_reply", "not_register",
                           "no_token", "registered"}
    IN
    /\ \E outcome \in SignonOutcomes, mainloop \in BOOLEAN :
          LET rc == SignonRc(outcome) IN
          /\ IF rc = pcmk_ok
             THEN /\ stonith' = [stonith EXCEPT !.state = "connected_command"]
                  /\ native' = [token |-> "token", ipc |-> "ipc",
                                source |-> IF mainloop THEN "source" ELSE native.source]
                  /\ ipc_up' = TRUE
             ELSE \* stonith->cmds->disconnect(stonith)
                  /\ stonith' = [stonith EXCEPT !.state = "disconnected"]
                  /\ native' = stonith_api_signoff(native)
                  /\ ipc_up' = FALSE
          /\ UNCHANGED net
          /\ api' = [NoApi EXCEPT !.fn = "signon", !.rc = rc, !.op = outcome,
                                  !.pre_state = stonith.state,
                                  !.pre_call_id = stonith.call_id]
    /\ UNCHANGED registry_vars
    /\ invoked' = <<>>
    /\ UNCHANGED <<runner_vars, fcall>>

Signoff ==
    /\ stonith' = [stonith EXCEPT !.state = "disconnected"]
    /\ native' = stonith_api_signoff(native)
    /\ ipc_up' = FALSE
    /\ api' = [NoApi EXCEPT !.fn = "signoff", !.rc = pcmk_ok,
                            !.pre_state = stonith.state,
                            !.pre_call_id = stonith.call_id]
    /\ UNCHANGED net
    /\ UNCHANGED registry_vars
    /\ invoked' = <<>>
    /\ UNCHANGED <<runner_vars, fcall>>

\* the fencer goes away or the channel breaks
ConnectionLost ==
    /\ ipc_up
    /\ ipc_up' = FALSE
    /\ UNCHANGED <<stonith, native, net, api>>
    /\ UNCHANGED registry_vars
    /\ invoked' = <<>>
    /\ UNCHANGED <<runner_vars, fcall>>

\* the early returns of stonith_send_command: 0 when the command goes ahead
SendRefused_NoStateCheck(state, op) ==
    IF op = NULL THEN -EINVAL ELSE pcmk_ok

SendRefused(state, op) ==
    IF state = "disconnected" THEN -ENOTCONN
    ELSE IF op = NULL THEN -EINVAL
    ELSE pcmk_ok

\* stonith->call_id++; if (stonith->call_id < 1) stonith->call_id = 1;
NextCallId(id) == IF Inc32(id) < 1 THEN 1 ELSE Inc32(id)

\* the increment of a signed int at INT_MAX is undefined: a build that wraps
\* gives INT_MIN, which the test then turns into 1; a build that relies on
\* "no overflow" folds the test (call_id + 1 < 1) into (call_id < 0), which is
\* false for INT_MAX, and keeps the wrapped value
NextCallIds(id) == IF id = INT_MAX THEN {1, Inc32(id)} ELSE {NextCallId(id)}

\* a synchronous wait that takes whatever reply arrives as its own
SyncReplyResult_AnyId(id, reply, opts, want_output) ==
    << IF reply.has_rc THEN reply.rc ELSE -ENOMSG,
       IF "st_opt_discard_reply" \in opts \/ ~want_output THEN NULL ELSE "reply" >>

\* the part of stonith_send_command after the reply arrived:
\* <<return value, output handed to the caller>>
SyncReplyResult(id, reply, opts, want_output) ==
    IF reply.id = id
    THEN << IF reply.has_rc THEN reply.rc ELSE -ENOMSG,
            IF "st_opt_discard_reply" \in opts \/ ~want_output THEN NULL ELSE "reply" >>
    ELSE << -ENOMSG, NULL >>

\* how often stonith_send_command calls free_xml on the reply document of a
\* synchronous call: in the branch of the reply id and again at the label done
\* unless op_reply was set to NULL
SyncReplyFrees(id, reply, opts, want_output) ==
    IF reply.id = id
    THEN IF "st_opt_discard_reply" \in opts \/ ~want_output THEN 1 ELSE 0
    ELSE 2

\* a command that never looks at the channel once the exchange is over
StateAtDone_NoCheck(state, up) == state

\* the label done: if (crm_ipc_connected(native->ipc) == FALSE) the state
\* becomes stonith_disconnected
StateAtDone(state, up) == IF up THEN state ELSE "disconnected"

\* stonith_send_command for one choice of its arguments, of what crm_ipc_send
\* does (send_ok), of whether the channel is still connected afterwards
\* (stays_up) and of the call id the increment yields
Send(op, opts, timeout, want_output, send_ok, stays_up, id) ==
    LET
        \* the call id before this one
        Dec32(x) == IF x = (0 - INT_MAX) - 1 THEN INT_MAX ELSE x - 1
        \* the replies a synchronous crm_ipc_send may hand back for a call
        Replies(call) ==
            { [id |-> i, has_rc |-> h, rc |-> r] :
                i \in {call, Dec32(call), -1}, h \in BOOLEAN, r \in {pcmk_ok, -EINVAL} }
    IN
    /\ net.calls < MaxCalls
    /\    LET refused == SendRefused(stonith.state, op)
              \* stonith_create_op returns NULL without a token
              built == native.token # NULL
              \* crm_ipc_send needs a channel that is connected
              sent == built /\ native.ipc # NULL /\ ipc_up /\ send_ok
              up == ipc_up /\ native.ipc # NULL /\ stays_up
              pre == [NoApi EXCEPT !.fn = "send", !.op = op, !.opts = opts,
                                   !.want_output = want_output,
                                   !.connected = up,
                                   !.pre_state = stonith.state,
                                   !.pre_call_id = stonith.call_id]
              req == [call_id |-> id, op |-> op, opts |-> opts, timeout |-> timeout]
          IN
          IF refused # pcmk_ok
          THEN /\ api' = [pre EXCEPT !.rc = refused]
               /\ net' = [net EXCEPT !.calls = net.calls + 1]
               /\ UNCHANGED <<stonith, native, ipc_up>>
          ELSE IF ~built
          THEN /\ api' = [pre EXCEPT !.rc = -EINVAL]
               /\ net' = [net EXCEPT !.calls = net.calls + 1]
               /\ stonith' = [stonith EXCEPT !.call_id = id]
               /\ UNCHANGED <<native, ipc_up>>
          ELSE /\ net' = [net EXCEPT
                            !.calls = net.calls + 1,
                            !.sent = IF sent THEN net.sent + 1 ELSE net.sent,
                            !.req = IF sent THEN req ELSE net.req,
                            !.bad = net.bad \/ (sent /\ stonith.state = "disconnected")]
               /\ ipc_up' = up
               /\ UNCHANGED native
               /\ IF ~sent
                  THEN \* rc < 0: -ECOMM, then the check at done
                       /\ api' = [pre EXCEPT !.rc = -ECOMM]
                       /\ stonith' = [call_id |-> id,
                                      state |-> StateAtDone(stonith.state, up)]
                  ELSE IF "st_opt_sync_call" \notin opts
                  THEN \* returns the call id at once, before the check at done;
                       \* free_xml(op_reply) releases what crm_ipc_send gave
                       /\ \E got \in BOOLEAN :
                             api' = [pre EXCEPT !.rc = id, !.transmitted = TRUE,
                                                !.got_reply = got,
                                                !.freed = IF got THEN 1 ELSE 0]
                       /\ stonith' = [stonith EXCEPT !.call_id = id]
                  ELSE \E reply \in Replies(id) :
                       LET res == SyncReplyResult(id, reply, opts, want_output) IN
                       /\ api' = [pre EXCEPT !.rc = res[1], !.output = res[2],
                                             !.transmitted = TRUE, !.reply = reply,
                                             !.got_reply = TRUE,
                                             !.freed = SyncReplyFrees(id, reply, opts,
                                                                      want_output)]
                       /\ stonith' = [call_id |-> id,
                                      state |-> StateAtDone(stonith.state, up)]
    /\ UNCHANGED registry_vars
    /\ invoked' = <<>>
    /\ UNCHANGED <<runner_vars, fcall>>

stonith_send_command ==
    LET Operations == {NULL, "st_device_register"}
        CallOptions == SUBSET {"st_opt_sync_call", "st_opt_discard_reply"}
        SendTimeouts == 0 .. MaxSendTimeout
    IN
    \E op \in Operations, opts \in CallOptions, timeout \in SendTimeouts,
       want_output \in BOOLEAN, send_ok \in BOOLEAN, stays_up \in BOOLEAN,
       id \in NextCallIds(stonith.call_id) :
        Send(op, opts, timeout, want_output, send_ok, stays_up, id)

(* -------------------- callback registry and dispatch ------------------- *)
\* the user_data a caller registers with the callback of a call: its own
\* context for that call
UserData(call_id) == "ud" \o ToString(call_id)
RegisterOptions == SUBSET {"st_opt_report_only_success", "st_opt_timeout_updates"}
RegisterTimeouts == (0 - 1) .. MaxSendTimeout
RegisterIds == {0 - ENOTCONN} \cup RegKeys

T_STONITH_NG == "stonith-ng"
T_STONITH_NOTIFY == "st_notify"
T_STONITH_TIMEOUT_VALUE == "st-async-timeout-value"

\* what the fencer (or anything else on the channel) may deliver
ReplyMessages ==
    LET MessageIds == -1 .. (MaxRegId + 1)
    IN
    { [NoMsg EXCEPT !.parsed = TRUE, !.type = T_STONITH_NG,
                    !.has_id = TRUE, !.id = i, !.has_rc = TRUE, !.rc = r] :
        i \in MessageIds, r \in {pcmk_ok, 0 - EINVAL} }
    \cup { [NoMsg EXCEPT !.parsed = TRUE, !.type = T_STONITH_NG,
                         !.has_id = TRUE, !.id = i] : i \in 1 .. MaxRegId }
    \cup { [NoMsg EXCEPT !.parsed = TRUE, !.type = T_STONITH_NG,
                         !.has_rc = TRUE, !.rc = r] : r \in {pcmk_ok, 0 - EINVAL} }

RefreshMessages ==
    LET RefreshTimeouts == 0 .. (MaxSendTimeout + 1)
    IN
    { [NoMsg EXCEPT !.parsed = TRUE, !.type = T_STONITH_TIMEOUT_VALUE,
                    !.has_id = TRUE, !.id = i, !.timeout = t] :
        i \in 1 .. (MaxRegId + 1), t \in RefreshTimeouts }

\* a notification of an event, of another event, without F_SUBTYPE
NotifyMessages ==
    { [NoMsg EXCEPT !.parsed = TRUE, !.type = T_STONITH_NOTIFY, !.subt = e] :
        e \in Events \cup {"st_notify_other", NULL} }

\* unparsable text, a document without F_TYPE, a document of another type,
\* one of another type that carries the call id of a pending call
DroppedMessages ==
    { NoMsg, [NoMsg EXCEPT !.parsed = TRUE],
      [NoMsg EXCEPT !.parsed = TRUE, !.type = "unknown"],
      [NoMsg EXCEPT !.parsed = TRUE, !.type = "unknown", !.has_id = TRUE, !.id = 1,
                    !.has_rc = TRUE] }

Messages == ReplyMessages \cup RefreshMessages \cup NotifyMessages \cup DroppedMessages

\* g_hash_table_lookup
Lookup(reg, id) == IF id \in RegKeys THEN reg[id] ELSE NoEntry

RECURSIVE RemoveFirst(_, _)
RemoveFirst(s, x) ==
    IF s = <<>> THEN <<>>
    ELSE IF Head(s) = x THEN Tail(s)
    ELSE <<Head(s)>> \o RemoveFirst(Tail(s), x)

\* g_source_remove(ref) of the source armed for key k with interval ms
g_source_remove(srcs, k, ms) == [srcs EXCEPT ![k] = RemoveFirst(@, ms)]

\* an entry that is dropped with its fallback timer left armed
stonith_destroy_op_callback_KeepTimer(srcs, k, blob) == srcs

\* stonith_destroy_op_callback: the value destructor of the table
stonith_destroy_op_callback(srcs, k, blob) ==
    IF blob.present /\ blob.timer > 0 THEN g_source_remove(srcs, k, blob.timer) ELSE srcs

\* a fallback timer without the grace period
FallbackInterval_NoGrace(timeout) == timeout * 1000

\* async_timer->timeout = (timeout + 60) * 1000
FallbackInterval(timeout) == (timeout + FallbackGrace) * 1000

\* set_callback_timeout: <<the entry, the armed sources>> afterwards
set_callback_timeout(blob, srcs, k, timeout) ==
    IF timeout <= 0 THEN <<blob, srcs>>
    ELSE LET removed == IF blob.timer > 0 THEN g_source_remove(srcs, k, blob.timer)
                        ELSE srcs
         IN << [blob EXCEPT !.timer = FallbackInterval(timeout)],
               [removed EXCEPT ![k] = Append(@, FallbackInterval(timeout))] >>

\* a removal that cancels the timer and leaves the entry in the table
TableRemove_TimerOnly(reg, srcs, k) ==
    IF k \in RegKeys /\ reg[k].present
    THEN << [reg EXCEPT ![k].timer = 0], stonith_destroy_op_callback(srcs, k, reg[k]) >>
    ELSE << reg, srcs >>

\* g_hash_table_remove(table, key)
TableRemove(reg, srcs, k) ==
    IF k \in RegKeys /\ reg[k].present
    THEN << [reg EXCEPT ![k] = NoEntry], stonith_destroy_op_callback(srcs, k, reg[k]) >>
    ELSE << reg, srcs >>

RECURSIVE TableDestroy(_, _, _)
\* g_hash_table_destroy: every value goes through the destructor
TableDestroy(reg, srcs, keys) ==
    IF keys = {} THEN << reg, srcs >>
    ELSE LET k == CHOOSE x \in keys : TRUE
             r == TableRemove(reg, srcs, k)
         IN TableDestroy(r[1], r[2], keys \ {k})

\* a removal that takes out one entry whatever all_callbacks says
DelCallback_OneOnly(reg, srcs, opcb, call_id, all_callbacks) ==
    IF call_id = 0 THEN << reg, srcs, NULL >>
    ELSE LET r == TableRemove(reg, srcs, call_id) IN << r[1], r[2], opcb >>

\* the body of stonith_api_del_callback: <<table, sources, op_callback>> afterwards
DelCallback(reg, srcs, opcb, call_id, all_callbacks) ==
    IF all_callbacks
    THEN LET r == TableDestroy(reg, srcs, RegKeys) IN << r[1], r[2], NULL >>
    ELSE IF call_id = 0 THEN << reg, srcs, NULL >>
    ELSE LET r == TableRemove(reg, srcs, call_id) IN << r[1], r[2], opcb >>

\* invoke_callback: the stonith_callback_data_t handed to the callback
Invocation(kind, call_id, rc, userdata) ==
    [kind |-> kind, call_id |-> call_id, rc |-> rc, userdata |-> userdata,
     event |-> NULL]

\* the per-call callback runs whatever the result
EntryCalled_AnyResult(blob, rc) == blob.present

\* local_blob.callback != NULL && (rc == pcmk_ok || local_blob.only_success == FALSE)
EntryCalled(blob, rc) == blob.present /\ (rc = pcmk_ok \/ ~blob.only_success)

\* a lookup that takes whichever entry is registered first
Matching_FirstRegistered(reg, call_id) ==
    IF \E k \in RegKeys : reg[k].present
    THEN CHOOSE k \in RegKeys : reg[k].present /\ \A j \in RegKeys : reg[j].present => k <= j
    ELSE call_id

\* the key stonith_perform_callback looks up for a reply with this call id
Matching(reg, call_id) == call_id

\* a callback path that leaves the entry it found in the table
stonith_perform_callback_KeepEntry(reg, srcs, opcb, call_id, rc) ==
    LET blob == Lookup(reg, call_id)
        first == IF EntryCalled(blob, rc)
                 THEN << Invocation("entry", call_id, rc, blob.user_data) >>
                 ELSE << >>
        second == IF opcb # NULL
                  THEN << Invocation("global", call_id, rc, NULL) >>
                  ELSE << >>
    IN << reg, srcs, opcb, first \o second >>

\* stonith_perform_callback with the call id and rc already read from msg:
\* <<table, sources, op_callback, invocations>> afterwards.
\* CRM_CHECK(call_id > 0, ...) only logs: the lookup goes ahead whatever the
\* call id is, and stonith_api_del_callback(stonith, 0, FALSE) clears
\* op_callback instead of removing the entry found under key 0
stonith_perform_callback(reg, srcs, opcb, call_id, rc) ==
    LET key == Matching(reg, call_id)
        blob == Lookup(reg, key)
        after == IF blob.present
                 THEN DelCallback(reg, srcs, opcb, key, FALSE)
                 ELSE << reg, srcs, opcb >>
        first == IF EntryCalled(blob, rc)
                 THEN << Invocation("entry", call_id, rc, blob.user_data) >>
                 ELSE << >>
        second == IF after[3] # NULL
                  THEN << Invocation("global", call_id, rc, NULL) >>
                  ELSE << >>
    IN << after[1], after[2], after[3], first \o second >>

\* a failed call reports to the callback whatever the options say
FailedCallInvocations_Always(call_id, options, user_data) ==
    << Invocation("entry", call_id, call_id, user_data) >>

\* stonith_api_add_callback with call_id < 0: the call already failed
FailedCallInvocations(call_id, options, user_data) ==
    IF "st_opt_report_only_success" \notin options
    THEN << Invocation("entry", call_id, call_id, user_data) >>
    ELSE << >>

AddCallback(call_id, timeout, options, user_data) ==
    /\    LET blob == [present |-> TRUE,
                       only_success |-> "st_opt_report_only_success" \in options,
                       allow_timeout_updates |-> "st_opt_timeout_updates" \in options,
                       user_data |-> user_data, timer |-> 0]
              armed == set_callback_timeout(blob, sources, call_id, timeout)
              \* g_hash_table_insert destroys the value it replaces
              replaced == TableRemove(registry, armed[2], call_id)
              pre == [NoApi EXCEPT !.fn = "add_callback", !.call_id = call_id]
          IN
          IF call_id < 0
          THEN /\ invoked' = FailedCallInvocations(call_id, options, user_data)
               /\ api' = [pre EXCEPT !.rc = 0]
               /\ UNCHANGED registry_vars
          ELSE /\ op_callback' = IF call_id = 0 THEN "callback" ELSE op_callback
               /\ registry' = [replaced[1] EXCEPT ![call_id] = armed[1]]
               /\ sources' = replaced[2]
               /\ invoked' = << >>
               /\ api' = [pre EXCEPT !.rc = 1]
               /\ UNCHANGED notify_list
    /\ UNCHANGED <<stonith, native, ipc_up, net>>
    /\ UNCHANGED <<runner_vars, fcall>>

stonith_api_add_callback ==
    LET
        \* the session-wide callback (call id 0) is installed without options
        RegisterOptionsFor(call_id) == IF call_id = 0 THEN {{}} ELSE RegisterOptions
    IN
    \E call_id \in RegisterIds, timeout \in RegisterTimeouts :
        \E options \in RegisterOptionsFor(call_id) :
            AddCallback(call_id, timeout, options, UserData(call_id))

RemoveCallback(call_id, all_callbacks) ==
    /\ LET r == DelCallback(registry, sources, op_callback, call_id, all_callbacks)
       IN /\ registry' = r[1]
          /\ sources' = r[2]
          /\ op_callback' = r[3]
    \* op: whether the table held what was to be removed
    /\ api' = [NoApi EXCEPT !.fn = IF all_callbacks THEN "del_all_callbacks"
                                  ELSE "del_callback",
                            !.op = IF (all_callbacks /\ registry # EmptyRegistry)
                                      \/ (~all_callbacks /\ call_id # 0
                                          /\ Lookup(registry, call_id).present)
                                   THEN "found" ELSE "missing",
                            !.call_id = call_id, !.rc = pcmk_ok]
    /\ invoked' = << >>
    /\ UNCHANGED <<stonith, native, ipc_up, net, notify_list>>
    /\ UNCHANGED <<runner_vars, fcall>>

stonith_api_del_callback ==
    \E call_id \in RegKeys, all_callbacks \in BOOLEAN :
        RemoveCallback(call_id, all_callbacks)

\* a fallback timer fires: it stays armed unless the callback path removes it
TimerFires(k) ==
    /\ sources[k] # << >>
    /\ LET r == stonith_perform_callback(registry, sources, op_callback, k, 0 - ETIME)
       IN /\ registry' = r[1]
          /\ sources' = r[2]
          /\ op_callback' = r[3]
          /\ invoked' = r[4]
    /\ api' = [NoApi EXCEPT !.fn = "timer", !.call_id = k, !.rc = 1]
    /\ UNCHANGED <<stonith, native, ipc_up, net, notify_list>>
    /\ UNCHANGED <<runner_vars, fcall>>

stonith_async_timeout_handler == \E k \in RegKeys : TimerFires(k)

\* a refresh that does not ask whether the entry opted in
update_callback_timeout_NoOptIn(reg, srcs, call_id, timeout) ==
    LET callback == Lookup(reg, call_id) IN
    IF ~callback.present
    THEN << reg, srcs >>
    ELSE LET r == set_callback_timeout(callback, srcs, call_id, timeout)
         IN << [reg EXCEPT ![call_id] = r[1]], r[2] >>

\* update_callback_timeout: <<table, sources>> afterwards
update_callback_timeout(reg, srcs, call_id, timeout) ==
    LET callback == Lookup(reg, call_id) IN
    IF ~callback.present \/ ~callback.allow_timeout_updates
    THEN << reg, srcs >>
    ELSE LET r == set_callback_timeout(callback, srcs, call_id, timeout)
         IN << [reg EXCEPT ![call_id] = r[1]], r[2] >>

\* stonith_send_notification for one subscriber: the event it hands over
NotifyInvocation(entry, msg) ==
    [kind |-> "notify", call_id |-> 0, rc |-> msg.rc, userdata |-> entry.notify,
     event |-> entry.event]

RECURSIVE FanOut_AllEvents(_, _)
\* a fan-out that does not compare the event names
FanOut_AllEvents(list, msg) ==
    IF list = << >> THEN << >>
    ELSE (IF Head(list).notify # NULL
          THEN << NotifyInvocation(Head(list), msg) >> ELSE << >>)
         \o FanOut_AllEvents(Tail(list), msg)

RECURSIVE FanOut(_, _)
\* g_list_foreach(notify_list, stonith_send_notification, &blob)
FanOut(list, msg) ==
    IF list = << >> THEN << >>
    ELSE (IF Head(list).notify # NULL /\ Head(list).event = msg.subt
          THEN << NotifyInvocation(Head(list), msg) >> ELSE << >>)
         \o FanOut(Tail(list), msg)

\* a dispatcher that hands a document without a known type to the reply path
IsReply_Lenient(msg) == msg.type \notin {T_STONITH_NOTIFY, T_STONITH_TIMEOUT_VALUE}

\* safe_str_eq(type, T_STONITH_NG)
IsReply(msg) == msg.type = T_STONITH_NG

Dispatch(msg) ==
    /\    LET call_id == IF msg.has_id THEN msg.id ELSE 0
              rc == IF msg.has_rc THEN msg.rc ELSE 0
              p == stonith_perform_callback(registry, sources, op_callback, call_id, rc)
              u == update_callback_timeout(registry, sources, call_id, msg.timeout)
          IN
          /\ api' = [NoApi EXCEPT !.fn = "dispatch", !.op = msg.type,
                                  !.rc = IF msg.parsed THEN 1 ELSE 0]
          /\ IF ~msg.parsed
             THEN /\ invoked' = << >>
                  /\ UNCHANGED <<registry, sources, op_callback>>
             ELSE IF IsReply(msg)
             THEN /\ registry' = p[1]
                  /\ sources' = p[2]
                  /\ op_callback' = p[3]
                  /\ invoked' = p[4]
             ELSE IF msg.type = T_STONITH_NOTIFY
             THEN /\ invoked' = FanOut(notify_list, msg)
                  /\ UNCHANGED <<registry, sources, op_callback>>
             ELSE IF msg.type = T_STONITH_TIMEOUT_VALUE
             THEN /\ registry' = u[1]
                  /\ sources' = u[2]
                  /\ invoked' = << >>
                  /\ UNCHANGED op_callback
             ELSE /\ invoked' = << >>
                  /\ UNCHANGED <<registry, sources, op_callback>>
    /\ UNCHANGED <<stonith, native, ipc_up, net, notify_list>>
    /\ UNCHANGED <<runner_vars, fcall>>

stonith_dispatch_internal == \E msg \in Messages : Dispatch(msg)

\* a comparison that looks at the event name alone
SameClient_EventOnly(a, b) == a.event = b.event

\* stonithlib_GCompareFunc(a, b) = 0
SameClient(a, b) ==
    /\ a.event = b.event
    /\ (a.notify = NULL \/ b.notify = NULL \/ a.notify = b.notify)

\* a search that returns the last match instead of the first
FindClient_LastMatch(list, c) ==
    IF \E i \in 1 .. Len(list) : SameClient(list[i], c)
    THEN CHOOSE i \in 1 .. Len(list) :
            SameClient(list[i], c)
            /\ \A j \in (i + 1) .. Len(list) : ~SameClient(list[j], c)
    ELSE 0

\* g_list_find_custom: the position of the first match, 0 when there is none
FindClient(list, c) ==
    IF \E i \in 1 .. Len(list) : SameClient(list[i], c)
    THEN CHOOSE i \in 1 .. Len(list) :
            SameClient(list[i], c) /\ \A j \in 1 .. (i - 1) : ~SameClient(list[j], c)
    ELSE 0

\* stonith_set_notification: the control message reaches the fencer when the
\* session is not disconnected and crm_ipc_send succeeds
stonith_set_notification(n, event, enabled, send_ok) ==
    IF stonith.state # "disconnected" /\ native.ipc # NULL /\ ipc_up /\ send_ok
    THEN [n EXCEPT !.ctl[event] = IF enabled THEN "activate" ELSE "deactivate"]
    ELSE n

\* stonith_api_add_notification for one event and callback; send_ok: what
\* crm_ipc_send does with the control message
AddNotification(event, callback, send_ok) ==
    /\    LET new_client == [event |-> event, notify |-> callback]
              pre == [NoApi EXCEPT !.fn = "add_notification", !.op = event,
                                   !.output = callback]
          IN
          IF FindClient(notify_list, new_client) # 0
          THEN /\ api' = [pre EXCEPT !.rc = 0 - ENOTUNIQ]
               /\ UNCHANGED <<notify_list, net>>
          ELSE /\ notify_list' = Append(notify_list, new_client)
               /\ net' = stonith_set_notification(net, event, TRUE, send_ok)
               /\ api' = [pre EXCEPT !.rc = pcmk_ok]
    /\ invoked' = << >>
    /\ UNCHANGED <<stonith, native, ipc_up, registry, sources, op_callback>>
    /\ UNCHANGED <<runner_vars, fcall>>

\* the callback may be any function, or none
stonith_api_add_notification ==
    \E event \in Events, callback \in NotifyFns \cup {NULL}, send_ok \in BOOLEAN :
        AddNotification(event, callback, send_ok)

DelNotification(event, send_ok) ==
    LET
        \* g_list_remove of the element at position i
        RemoveAt(list, i) == [j \in 1 .. (Len(list) - 1) |-> IF j < i THEN list[j] ELSE list[j + 1]]
    IN
    /\    LET i == FindClient(notify_list, [event |-> event, notify |-> NULL])
          IN /\ net' = stonith_set_notification(net, event, FALSE, send_ok)
             /\ notify_list' = IF i # 0 THEN RemoveAt(notify_list, i) ELSE notify_list
             /\ api' = [NoApi EXCEPT !.fn = "del_notification", !.op = event,
                                     !.rc = pcmk_ok]
    /\ invoked' = << >>
    /\ UNCHANGED <<stonith, native, ipc_up, registry, sources, op_callback>>
    /\ UNCHANGED <<runner_vars, fcall>>

stonith_api_del_notification ==
    \E event \in Events, send_ok \in BOOLEAN : DelNotification(event, send_ok)

InitSession ==
    /\ action = stonith_action_create(0, FAILURE_MAX_RETRIES)
    /\ destroyed = FALSE
    /\ child = NoChild
    /\ child_watch = FALSE
    /\ open_fds = {}
    /\ timers = NoTimers
    /\ pc = "session"
    /\ poll_timeout = 0
    /\ now = 0
    /\ ret = 0
    /\ done = [calls |-> 0, rc |-> 0, tries |-> 0]
    /\ last = NoAttempt
    /\ sig = NoSig
    /\ stonith = stonith_api_new
    /\ native = NoNative
    /\ ipc_up = FALSE
    /\ net = NoNet
    /\ api = NoApi
    /\ registry = EmptyRegistry
    /\ sources = NoSources
    /\ op_callback = NULL
    /\ notify_list = <<>>
    /\ invoked = <<>>
    /\ fcall = NoCall

NextSession ==
    \/ Signon
    \/ Signoff
    \/ ConnectionLost
    \/ stonith_send_command

SpecSession == InitSession /\ [][NextSession]_vars

\* a session whose call id counter is about to leave the positive range
InitCallId ==
    /\ action = stonith_action_create(0, FAILURE_MAX_RETRIES)
    /\ destroyed = FALSE
    /\ child = NoChild
    /\ child_watch = FALSE
    /\ open_fds = {}
    /\ timers = NoTimers
    /\ pc = "session"
    /\ poll_timeout = 0
    /\ now = 0
    /\ ret = 0
    /\ done = [calls |-> 0, rc |-> 0, tries |-> 0]
    /\ last = NoAttempt
    /\ sig = NoSig
    /\ \E id \in {1, INT_MAX - 1} : stonith = [stonith_api_new EXCEPT !.call_id = id]
    /\ native = NoNative
    /\ ipc_up = FALSE
    /\ net = NoNet
    /\ api = NoApi
    /\ registry = EmptyRegistry
    /\ sources = NoSources
    /\ op_callback = NULL
    /\ notify_list = <<>>
    /\ invoked = <<>>
    /\ fcall = NoCall

SpecCallId == InitCallId /\ [][NextSession]_vars

\* a session that signed on, attached to the mainloop
InitRegistry ==
    /\ action = stonith_action_create(0, FAILURE_MAX_RETRIES)
    /\ destroyed = FALSE
    /\ child = NoChild
    /\ child_watch = FALSE
    /\ open_fds = {}
    /\ timers = NoTimers
    /\ pc = "session"
    /\ poll_timeout = 0
    /\ now = 0
    /\ ret = 0
    /\ done = [calls |-> 0, rc |-> 0, tries |-> 0]
    /\ last = NoAttempt
    /\ sig = NoSig
    /\ stonith = [stonith_api_new EXCEPT !.state = "connected_command"]
    /\ native = [token |-> "token", ipc |-> "ipc", source |-> "source"]
    /\ ipc_up = TRUE
    /\ net = NoNet
    /\ api = NoApi
    /\ registry = EmptyRegistry
    /\ sources = NoSources
    /\ op_callback = NULL
    /\ notify_list = <<>>
    /\ invoked = <<>>
    /\ fcall = NoCall

\* an asynchronous command that goes out on a channel that stays connected
SendAsync ==
    \E want_output \in BOOLEAN, id \in NextCallIds(stonith.call_id) :
        Send("st_device_register", {}, 0, want_output, TRUE, TRUE, id)

NextRegistry ==
    \/ SendAsync
    \/ stonith_api_add_callback
    \/ stonith_api_del_callback
    \/ stonith_async_timeout_handler
    \/ stonith_dispatch_internal

SpecRegistry == InitRegistry /\ [][NextRegistry]_vars

\* the registry of a session whose replies, if any, come in through dispatch
NextTimers ==
    \/ stonith_api_add_callback
    \/ stonith_api_del_callback
    \/ stonith_async_timeout_handler
    \/ stonith_dispatch_internal

\* a glib timeout source that stays armed is run by the main loop
FairRegistry ==
    /\ InitRegistry
    /\ [][NextTimers]_vars
    /\ \A k \in RegKeys : WF_vars(TimerFires(k))

\* the session-wide callback or the callback of call 1 is registered, with a
\* fallback timer
RegisterPending ==
    \E call_id \in {0, 1} : AddCallback(call_id, 1, {}, UserData(call_id))

\* a client that follows fencing events
SubscribeFence ==
    \E callback \in NotifyFns, send_ok \in BOOLEAN :
        AddNotification("st_notify_fence", callback, send_ok)

UnsubscribeFence ==
    \E send_ok \in BOOLEAN : DelNotification("st_notify_fence", send_ok)

NextNotify ==
    \/ Signon
    \/ Signoff
    \/ RegisterPending
    \/ SubscribeFence
    \/ UnsubscribeFence
    \/ stonith_dispatch_internal

SpecNotify == InitSession /\ [][NextNotify]_vars

\* the subscriber list of a session that is connected or not
InitSubscribers == InitSession \/ InitRegistry

DispatchNotification == \E msg \in NotifyMessages : Dispatch(msg)

NextSubscribers ==
    \/ Signoff
    \/ stonith_api_add_notification
    \/ stonith_api_del_notification
    \/ DispatchNotification

SpecSubscribers == InitSubscribers /\ [][NextSubscribers]_vars

(* ------------------- the connection is destroyed ----------------------- *)
T_STONITH_NOTIFY_DISCONNECT == "st_notify_disconnect"

\* a destroy callback that forgets the channel and keeps the mainloop source
DestroyedNative_KeepSource(n) == [n EXCEPT !.ipc = NULL]

\* native->ipc = NULL; native->source = NULL;
DestroyedNative(n) == [n EXCEPT !.ipc = NULL, !.source = NULL]

\* the destroy callback the mainloop calls for a session that is attached to
\* it, when the connection is gone
stonith_connection_destroy ==
    LET
        \* blob.xml of stonith_connection_destroy: a notification of the disconnect
        \* type the client makes up itself
        DisconnectNotify ==
            [NoMsg EXCEPT !.parsed = TRUE, !.type = T_STONITH_NOTIFY,
                          !.subt = T_STONITH_NOTIFY_DISCONNECT]
    IN
    /\ native.source # NULL
    /\ native' = DestroyedNative(native)
    /\ stonith' = [stonith EXCEPT !.state = "disconnected"]
    /\ ipc_up' = FALSE
    /\ invoked' = FanOut(notify_list, DisconnectNotify)
    /\ api' = [NoApi EXCEPT !.fn = "connection_destroy",
                            !.pre_state = stonith.state,
                            !.pre_call_id = stonith.call_id]
    /\ UNCHANGED <<net, registry_vars>>
    /\ UNCHANGED <<runner_vars, fcall>>

NextDestroy ==
    \/ Signon
    \/ stonith_api_add_notification
    \/ RegisterPending
    \/ stonith_connection_destroy

SpecDestroy == InitSession /\ [][NextDestroy]_vars

(* --------------------- the parameter blob of an agent -------------------- *)
\* Keys and values are strings, held as the sequence of their pieces: the
\* pieces are what strstr, the comparisons and the reader of the blob can
\* tell apart.  The empty sequence stands for a null pointer.
NoValue == << >>

STONITH_ATTR_ACTION_OP == << "action" >>
STONITH_ATTR_HOSTARG == << "pcmk_", "host_argument" >>
CRM_META == "CRM_meta"

\* snprintf(buffer, sizeof(buffer), "pcmk_%s_action", action) for the
\* requested action
ActionKey(requested) == << "pcmk_" >> \o requested \o << "_action" >>

\* a filter that takes pcmk_ as a prefix
Filtered_PrefixOnly(key) ==
    \/ key[1] = "pcmk_"
    \/ key[1] = CRM_META
    \/ key = << "crm_feature_set" >>

\* the keys append_arg leaves out
Filtered(key) ==
    LET
        \* strstr(s, piece) != NULL
        Contains(s, piece) == \E i \in 1 .. Len(s) : s[i] = piece
    IN
    \/ Contains(key, "pcmk_")
    \/ Contains(key, CRM_META)
    \/ key = << "crm_feature_set" >>

\* append_arg: the blob afterwards
append_arg(key, value, args) ==
    LET
        \* sprintf((*args) + last, "%s=%s\n", key, value)
        Line(k, v) == k \o << "=" >> \o v \o << "\n" >>
    IN
    IF key = NoValue \/ value = NoValue THEN args
    ELSE IF Filtered(key) THEN args
    ELSE args \o Line(key, value)

\* append_config_arg
append_config_arg(key, value, args) ==
    IF key # STONITH_ATTR_ACTION_OP THEN append_arg(key, value, args) ELSE args

\* g_hash_table_lookup; a table is a function from its keys to their values
TableLookup(table, key) == IF key \in DOMAIN table THEN table[key] ELSE NoValue

RECURSIVE Foreach(_, _, _)
\* g_hash_table_foreach(device_args, append_config_arg, &arg_list) for one
\* order of the keys
Foreach(table, order, args) ==
    IF order = << >> THEN args
    ELSE Foreach(table, Tail(order),
                 append_config_arg(Head(order), table[Head(order)], args))

\* snprintf(nodeid_str, 33, "%u", victim_nodeid)
NodeidStr(victim_nodeid) == << ToString(victim_nodeid) >>

\* a victim section that writes the alias over a configured value
VictimArgs_Overrides(agent, victim, victim_nodeid, table, alias_of, args) ==
    LET alias == IF alias_of # NoValue THEN alias_of ELSE victim
        hostarg == TableLookup(table, STONITH_ATTR_HOSTARG)
        named == append_arg(<< "nodename" >>, victim, args)
        numbered == IF victim_nodeid # 0
                    THEN append_arg(<< "nodeid" >>, NodeidStr(victim_nodeid), named)
                    ELSE named
        param == IF hostarg = NoValue THEN << "port" >> ELSE hostarg
    IN IF agent = << "fence_legacy" >> \/ hostarg = << "none" >>
       THEN numbered
       ELSE append_arg(param, alias, numbered)

\* the part of make_args that supplies the victim
VictimArgs(agent, victim, victim_nodeid, table, alias_of, args) ==
    LET alias == IF alias_of # NoValue THEN alias_of ELSE victim
        hostarg == TableLookup(table, STONITH_ATTR_HOSTARG)
        named == append_arg(<< "nodename" >>, victim, args)
        numbered == IF victim_nodeid # 0
                    THEN append_arg(<< "nodeid" >>, NodeidStr(victim_nodeid), named)
                    ELSE named
        param == IF hostarg = NoValue THEN << "port" >> ELSE hostarg
        value == IF agent = << "fence_legacy" >> THEN agent
                 ELSE IF hostarg = NoValue THEN TableLookup(table, << "port" >>)
                 ELSE IF hostarg = << "none" >> THEN hostarg
                 ELSE TableLookup(table, hostarg)
    \* "Don't overwrite explictly set values for $param"
    IN IF value = NoValue \/ value = << "dynamic" >>
       THEN append_arg(param, alias, numbered)
       ELSE numbered

\* make_args for one iteration order of device_args; has_table is FALSE for
\* a null device_args, alias_of is the victim's entry in port_map
make_args(agent, requested, victim, victim_nodeid, has_table, table, alias_of, order) ==
    LET subst == IF has_table THEN TableLookup(table, ActionKey(requested)) ELSE NoValue
        act == IF subst # NoValue THEN subst ELSE requested
        first == append_arg(STONITH_ATTR_ACTION_OP, act, << >>)
        second == IF victim # NoValue /\ has_table
                  THEN VictimArgs(agent, victim, victim_nodeid, table, alias_of, first)
                  ELSE first
    IN IF has_table THEN Foreach(table, order, second) ELSE second

\* the keys a device may be configured with
ArgKeys ==
    { << "ipaddr" >>, << "port" >>, << "plug" >>, STONITH_ATTR_ACTION_OP,
      STONITH_ATTR_HOSTARG, ActionKey(<< "reboot" >>), << CRM_META, "_timeout" >>,
      << "crm_feature_set" >>, << "my_", "pcmk_", "opt" >> }

\* the values each of them may have
TableValues(key) ==
    IF key = STONITH_ATTR_HOSTARG
    THEN { << "none" >>, << "plug" >>, << "pcmk_", "plug" >> }
    ELSE IF key = << "port" >> THEN { << "dynamic" >>, << "7" >> }
    ELSE IF key = ActionKey(<< "reboot" >>) THEN { << "off" >> }
    ELSE IF key = STONITH_ATTR_ACTION_OP THEN { << "status" >> }
    ELSE { << "1" >> }

InitArgs ==
    LET
        \* the device-argument tables with these keys
        Tables(keys) ==
            { t \in [keys -> UNION { TableValues(k) : k \in keys }] :
                \A k \in keys : t[k] \in TableValues(k) }
        Agents == { << "fence_legacy" >>, << "fence_ipmilan" >> }
        AgentActions == { << "reboot" >>, << "off" >> }
        Victims == { NoValue, << "node1" >> }
        Nodeids == { 0, 7 }
        Aliases == { NoValue, << "plug1" >> }
    IN
    /\ action = stonith_action_create(0, FAILURE_MAX_RETRIES)
    /\ destroyed = FALSE
    /\ child = NoChild
    /\ child_watch = FALSE
    /\ open_fds = {}
    /\ timers = NoTimers
    /\ pc = "session"
    /\ poll_timeout = 0
    /\ now = 0
    /\ ret = 0
    /\ done = [calls |-> 0, rc |-> 0, tries |-> 0]
    /\ last = NoAttempt
    /\ sig = NoSig
    /\ stonith = stonith_api_new
    /\ native = NoNative
    /\ ipc_up = FALSE
    /\ net = NoNet
    /\ api = NoApi
    /\ registry = EmptyRegistry
    /\ sources = NoSources
    /\ op_callback = NULL
    /\ notify_list = << >>
    /\ invoked = << >>
    /\ \E agent \in Agents, act \in AgentActions, victim \in Victims,
          nodeid \in Nodeids, alias_of \in Aliases, has_table \in BOOLEAN :
          \E keys \in { S \in SUBSET ArgKeys :
                            Cardinality(S) <= IF has_table THEN MaxArgs ELSE 0 } :
            \E table \in Tables(keys) :
                fcall = [fn |-> "make_args", agent |-> agent, action |-> act,
                         victim |-> victim, victim_nodeid |-> nodeid,
                         has_table |-> has_table, device_args |-> table,
                         alias_of |-> alias_of, arg_list |-> NoValue,
                         returned |-> FALSE]

\* make_args returns the blob
MakeArgs ==
    LET
        \* the orders in which a hash table may hand out its keys
        Orders(table) ==
            { o \in [1 .. Cardinality(DOMAIN table) -> DOMAIN table] :
                \A i, j \in DOMAIN o : o[i] = o[j] => i = j }
    IN
    /\ fcall.fn = "make_args"
    /\ ~fcall.returned
    /\ \E order \in Orders(fcall.device_args) :
          fcall' = [fcall EXCEPT
                      !.arg_list = make_args(fcall.agent, fcall.action, fcall.victim,
                                             fcall.victim_nodeid, fcall.has_table,
                                             fcall.device_args, fcall.alias_of, order),
                      !.returned = TRUE]
    /\ UNCHANGED <<runner_vars, session_vars>>

SpecArgs == InitArgs /\ [][MakeArgs]_vars

(* ------------------- the retry policy on its own ----------------------- *)

\* any action that has made at least one attempt, at any later time
InitPolicy ==
    LET ResultCodes == {pcmk_ok, -ETIME, -ECONNABORTED, -ENODATA, -ETIMEDOUT,
                        -EOPNOTSUPP, -pcmk_err_generic}
    IN
    /\ \E t \in (0 - NegTimeout) .. PolicyMaxTimeout, n \in RetryCounts,
          k \in 1 .. (MaxRetries + 1), rc \in ResultCodes :
          action = [stonith_action_create(t, n) EXCEPT !.tries = k, !.rc = rc]
    /\ now \in 0 .. PolicyMaxTimeout
    /\ pc = "policy"
    /\ destroyed = FALSE
    /\ child = NoChild
    /\ child_watch = FALSE
    /\ open_fds = {}
    /\ timers = NoTimers
    /\ poll_timeout = 0
    /\ ret = 0
    /\ done = [calls |-> 0, rc |-> 0, tries |-> 0]
    /\ last = NoAttempt
    /\ sig = NoSig
    /\ stonith = stonith_api_new
    /\ native = NoNative
    /\ ipc_up = FALSE
    /\ net = NoNet
    /\ api = NoApi
    /\ registry = EmptyRegistry
    /\ sources = NoSources
    /\ op_callback = NULL
    /\ notify_list = <<>>
    /\ invoked = <<>>
    /\ fcall = NoCall

PolicyApply ==
    /\ pc = "policy"
    /\ action' = update_remaining_timeout(action, now)
    /\ ret' = IF RetryAllowed(action, now) THEN 1 ELSE 0
    /\ pc' = "policy_done"
    /\ UNCHANGED <<open_fds, destroyed, child, child_watch, timers, poll_timeout, now, done,
                   last, sig>>
    /\ UNCHANGED <<session_vars, fcall>>

NextPolicy == PolicyApply

SpecPolicy == InitPolicy /\ [][NextPolicy]_vars

(* ---------------------------- operation keys --------------------------- *)
\* A string is the sequence of its pieces: "_", a decimal digit, or a word
\* without underscore and digit; the scans of parse_op_key tell no more apart.
DigitChars == << "0", "1", "2", "3", "4", "5", "6", "7", "8", "9" >>

RECURSIVE FormatUnsigned(_)
\* printf's %u
FormatUnsigned(n) ==
    IF n < 10 THEN << DigitChars[n + 1] >>
    ELSE FormatUnsigned(n \div 10) \o << DigitChars[(n % 10) + 1] >>

\* generate_op_key: crm_strdup_printf(CRM_OP_FMT, rsc_id, op_type,
\* interval_ms), the format being "%s_%s_%u"
generate_op_key(rsc_id, op_type, interval_ms) ==
    rsc_id \o << "_" >> \o op_type \o << "_" >> \o FormatUnsigned(interval_ms)

RECURSIVE Pow10(_)
\* for (digits = len - offset; digits > 1; --digits) ch = ch * 10;
Pow10(digits) == IF digits <= 1 THEN 1 ELSE 10 * Pow10(digits - 1)

RECURSIVE ScanInterval(_, _, _)
\* while ((offset > 0) && isdigit(key[offset])): <<offset, local_interval_ms>>
\* when the loop is left; offset counts from 0 as in the code.  The keys that
\* are looked at have fewer than ten digits, so neither ch nor the guint sum
\* leaves its range
ScanInterval(key, offset, sum) ==
    LET
        \* isdigit(c)
        isdigit(c) == \E d \in 1 .. 10 : DigitChars[d] = c
        \* c - '0'
        DigitValue(c) == (CHOOSE d \in 1 .. 10 : DigitChars[d] = c) - 1
    IN
    IF offset > 0 /\ isdigit(key[offset + 1])
    THEN ScanInterval(key, offset - 1,
                      sum + DigitValue(key[offset + 1]) * Pow10(Len(key) - offset))
    ELSE << offset, sum >>

RECURSIVE ScanBack(_, _)
\* while (offset > 0 && key[offset] != '_') offset--;
ScanBack(key, offset) ==
    IF offset > 0 /\ key[offset + 1] # "_" THEN ScanBack(key, offset - 1) ELSE offset

\* strstr(s, suffix) finds the first occurrence, safe_str_eq(notify, suffix)
\* asks that nothing follows it: notify[0] = 0 cuts it off
CutSuffix(s, suffix) ==
    LET n == Len(suffix)
        at == { i \in 1 .. (Len(s) - n + 1) : SubSeq(s, i, i + n - 1) = suffix }
        first == CHOOSE i \in at : \A j \in at : i <= j
    IN IF at # {} /\ first + n - 1 = Len(s) THEN SubSeq(s, 1, first - 1) ELSE s

POST_NOTIFY == << "_", "post", "_", "notify" >>
PRE_NOTIFY == << "_", "pre", "_", "notify" >>

\* parse_op_key: the value returned and the three outputs (NoValue for NULL)
parse_op_key(key) ==
    LET failed == [ok |-> FALSE, rsc_id |-> NoValue, op_type |-> NoValue, interval_ms |-> 0]
        len == Len(key)
        scan == ScanInterval(key, len - 1, 0)
        sep == scan[1]
        \* mutable_key = strndup(key, offset); offset--; then the scan back
        offset == ScanBack(key, sep - 1)
        mutable_key == SubSeq(key, 1, offset)
    IN IF key = NoValue THEN failed
       ELSE IF sep = len - 1 \/ key[sep + 1] # "_"
       THEN [failed EXCEPT !.interval_ms = scan[2]]
       ELSE IF key[offset + 1] # "_"
       THEN [failed EXCEPT !.interval_ms = scan[2]]
       ELSE [ok |-> TRUE,
             rsc_id |-> CutSuffix(CutSuffix(mutable_key, POST_NOTIFY), PRE_NOTIFY),
             op_type |-> SubSeq(key, offset + 2, sep),
             interval_ms |-> scan[2]]

RECURSIVE Strings(_, _)
\* the strings of at most n pieces over an alphabet
Strings(alphabet, n) ==
    IF n = 0 THEN { << >> }
    ELSE Strings(alphabet, n - 1)
         \cup { Append(s, c) : s \in Strings(alphabet, n - 1), c \in alphabet }

\* resource ids: short ones, and ones that carry a notify suffix somewhere
RscIds ==
    (Strings({"r", "_", "7"}, MaxRscLen) \ { << >> })
    \cup { << "r" >> \o PRE_NOTIFY, << "r" >> \o POST_NOTIFY,
           << "r" >> \o PRE_NOTIFY \o << "_", "r" >>,
           << "r" >> \o POST_NOTIFY \o << "7" >> }

InitOpKey ==
    LET OpTypes == Strings({"o", "_", "7"}, MaxOpLen) \ { << >> }
        IntervalsMs == {0, 7, 60, 1005}
    IN
    /\ action = stonith_action_create(0, FAILURE_MAX_RETRIES)
    /\ destroyed = FALSE
    /\ child = NoChild
    /\ child_watch = FALSE
    /\ open_fds = {}
    /\ timers = NoTimers
    /\ pc = "session"
    /\ poll_timeout = 0
    /\ now = 0
    /\ ret = 0
    /\ done = [calls |-> 0, rc |-> 0, tries |-> 0]
    /\ last = NoAttempt
    /\ sig = NoSig
    /\ stonith = stonith_api_new
    /\ native = NoNative
    /\ ipc_up = FALSE
    /\ net = NoNet
    /\ api = NoApi
    /\ registry = EmptyRegistry
    /\ sources = NoSources
    /\ op_callback = NULL
    /\ notify_list = << >>
    /\ invoked = << >>
    /\ \E rsc_id \in RscIds, op_type \in OpTypes, interval_ms \in IntervalsMs :
          fcall = [fn |-> "generate_op_key", rsc_id |-> rsc_id, op_type |-> op_type,
                   interval_ms |-> interval_ms, key |-> NoValue,
                   parsed |-> parse_op_key(NoValue)]

\* generate_op_key returns the key
GenerateOpKey ==
    /\ fcall.fn = "generate_op_key"
    /\ fcall.key = NoValue
    /\ fcall' = [fcall EXCEPT !.key = generate_op_key(fcall.rsc_id, fcall.op_type,
                                                      fcall.interval_ms)]
    /\ UNCHANGED <<runner_vars, session_vars>>

\* parse_op_key is called with that key
ParseOpKey ==
    /\ fcall.fn = "generate_op_key"
    /\ fcall.key # NoValue
    /\ fcall' = [fcall EXCEPT !.fn = "parse_op_key", !.parsed = parse_op_key(fcall.key)]
    /\ UNCHANGED <<runner_vars, session_vars>>

NextOpKey == GenerateOpKey \/ ParseOpKey

SpecOpKey == InitOpKey /\ [][NextOpKey]_vars

(* ------------------------------ claims --------------------------------- *)
Elapsed == now - action.initial_start_time

\* C1: after a failure that is not the time-out error the policy permits a
\* retry iff tries < max_retries and elapsed < 0.7 * timeout, and then
\* remaining_timeout = timeout - elapsed; in every other case it refuses and
\* remaining_timeout = 0.
C1_RetryPolicy ==
    pc = "policy_done" =>
        LET permit == /\ action.rc # -ETIME
                      /\ action.tries < action.max_retries
                      /\ 10 * Elapsed < 7 * action.timeout
        IN /\ (ret = 1) <=> permit
           /\ action.remaining_timeout = IF permit THEN action.timeout - Elapsed ELSE 0

C1_Witness ==
    /\ pc = "policy_done"
    /\ ret = 1
    /\ action.rc = -ECONNABORTED
    /\ action.timeout = PolicyMaxTimeout
    /\ Elapsed = 6
    /\ action.remaining_timeout = PolicyMaxTimeout - 6

\* whether the policy of section 4.2 permits another attempt after `l`
Permitted(l) ==
    /\ l.tries < action.max_retries
    /\ l.rc # -ETIME
    /\ 10 * l.e < 7 * action.timeout

\* the result the caller finally sees on the action
FinalRc == IF action.async = 1 THEN done.rc ELSE action.rc

\* C2: an attempt that ended with the time-out error is the last one: the
\* action is complete, its result is the time-out error and the attempt count
\* is the one of that attempt.
C2_NoRetryAfterTimeout ==
    (last.kind = "exit" /\ last.rc = -ETIME) =>
        /\ pc = "done"
        /\ action.tries = last.tries
        /\ FinalRc = -ETIME
        /\ action.async = 1 => done.calls = 1

C2_Witness ==
    /\ last.kind = "exit"
    /\ last.rc = -ETIME
    /\ last.tries < action.max_retries
    /\ last.lts = SIGKILL
    /\ pc = "done"

\* C3: in both modes an attempt that ends with a failure result on the action
\* is retried (the parent goes on to execute again) whenever the policy
\* permits another attempt.
C3_FailureIsRetried ==
    (last.kind = "exit" /\ last.rc # pcmk_ok /\ Permitted(last)) => pc = "exec"

Max(a, b) == IF a >= b THEN a ELSE b

\* C4 as stated: the number of attempts never exceeds max_retries.
C4_Original ==
    /\ action.tries <= action.max_retries
    /\ (pc = "done" /\ action.max_retries <= 1) => action.tries = 1

C4_Attempts ==
    /\ action.tries <= Max(1, action.max_retries)
    /\ pc = "done" => action.tries >= 1
    /\ (pc = "done" /\ action.max_retries <= 1) => action.tries = 1

\* C4 (amended): the number of attempts never exceeds max(1, max_retries),
\* a completed action with max_retries <= 1 made exactly one attempt, and an
\* action with a declared timeout > 0 that is executed always completes.
C4_AttemptsBounded ==
    /\ []C4_Attempts
    /\ (pc = "exec" /\ action.timeout > 0) ~> (pc = "done")

C4_Witness ==
    /\ pc = "done"
    /\ action.max_retries = MaxRetries
    /\ action.tries = MaxRetries
    /\ last.rc # pcmk_ok

\* the classification of section 4.1, rule by rule
Rule(l) ==
    CASE l.lts # 0 -> 1
      [] l.lts = 0 /\ l.signo # 0 -> 2
      [] l.lts = 0 /\ l.signo = 0 /\ l.code # 0 /\ l.err = {} -> 3
      [] l.lts = 0 /\ l.signo = 0 /\ l.code # 0 /\ TimedOutPhrase \in l.err -> 4
      [] l.lts = 0 /\ l.signo = 0 /\ l.code # 0 /\ l.err # {}
            /\ TimedOutPhrase \notin l.err /\ UnrecognisedPhrase \in l.err -> 5
      [] l.lts = 0 /\ l.signo = 0 /\ l.code # 0 /\ l.err # {}
            /\ TimedOutPhrase \notin l.err /\ UnrecognisedPhrase \notin l.err -> 6
      [] l.lts = 0 /\ l.signo = 0 /\ l.code = 0 -> 7

RuleCode(n) ==
    CASE n = 1 -> -ETIME
      [] n = 2 -> -ECONNABORTED
      [] n = 3 -> -ENODATA
      [] n = 4 -> -ETIMEDOUT
      [] n = 5 -> -EOPNOTSUPP
      [] n = 6 -> -pcmk_err_generic
      [] n = 7 -> pcmk_ok

\* C5: the result of an asynchronous attempt is the one of the first rule
\* that matches, and a zero exit (success) is never followed by an attempt.
C5_AsyncClassification ==
    (last.kind = "exit" /\ last.async = 1) =>
        /\ last.rc = RuleCode(Rule(last))
        /\ last.rc = pcmk_ok => (pc = "done" /\ done.calls = 1 /\ done.rc = pcmk_ok)

C5_Witness ==
    /\ last.kind = "exit"
    /\ last.async = 1
    /\ last.lts = SIGTERM
    /\ last.signo = SIGTERM
    /\ last.rc = -ETIME

\* what C6 says of an asynchronous attempt whose timers were armed for r
TimersAsClaimed ==
    /\ sig.armed = 2
    /\ sig.nterm <= 1 /\ sig.nkill <= 1
    /\ action.timer_sigterm > 0 => timers.term = sig.start + sig.r
    /\ action.timer_sigkill > 0 => timers.kill = sig.start + sig.r + KillDelay
    /\ sig.nterm = 1 => sig.term_at = sig.start + sig.r
    /\ sig.nkill = 1 => (sig.nterm = 1 /\ sig.kill_at = sig.term_at + KillDelay)
    /\ (child.st = "running" /\ pc = "mainloop" /\ now > sig.start + sig.r)
          => sig.nterm = 1
    /\ (child.st = "running" /\ pc = "mainloop")
          => now <= sig.start + sig.r + KillDelay

AsyncAttemptRunning == action.async = 1 /\ pc = "mainloop"

\* C6 as stated: every asynchronous attempt.
C6_Original == AsyncAttemptRunning => TimersAsClaimed

\* C6 (amended): every asynchronous attempt with remaining_timeout > 0 arms
\* the SIGTERM timer at remaining_timeout and the SIGKILL timer at
\* remaining_timeout + 5 seconds; SIGKILL is sent exactly 5 seconds after
\* SIGTERM, never before it, and each signal at most once per attempt.
C6_Escalation == (AsyncAttemptRunning /\ sig.r > 0) => TimersAsClaimed

C6_Witness ==
    /\ AsyncAttemptRunning
    /\ sig.r > 0
    /\ sig.nterm = 1
    /\ sig.nkill = 1
    /\ child.signo = SIGKILL

\* C7: in synchronous mode the child is polled at most remaining_timeout + 1
\* times; SIGKILL is sent and the result is the time-out error exactly when the
\* child had not exited by the last poll.
C7_SyncPollBound ==
    (last.kind = "exit" /\ last.async = 0) =>
        /\ last.polls <= last.r + 1
        /\ last.killed <=> ~last.inloop
        /\ (last.rc = -ETIME) <=> ~last.inloop

\* the write to the child's stdin was short: part of the blob is in the pipe
\* and the attempt was aborted with the communication error
ShortWrite ==
    /\ last.kind = "startfail"
    /\ last.ret = -ECOMM
    /\ child.stdin_eof
    /\ child.stdin_bytes > 0
    /\ child.stdin_bytes < ArgLen

\* C8: after a short write the agent of that attempt never consumes the
\* partly written parameter blob.
C8_NoTruncatedParams == ShortWrite => child.input # "truncated"

FirstAttemptStarted == action.async = 1 /\ ~(last.kind = "startfail" /\ last.tries = 1)

\* C9: the completion callback of an asynchronous action is invoked at most
\* once, only when the action is complete (never while a retry runs), exactly
\* once by the time an action whose first attempt started is complete; the
\* action is destroyed in that same step and then no timer and no child-exit
\* handler is left that refers to it.
C9_CallbackOnce ==
    /\ done.calls <= 1
    /\ done.calls = 1 => (pc = "done" /\ destroyed /\ done.tries = action.tries)
    /\ (pc = "done" /\ FirstAttemptStarted) => done.calls = 1
    /\ destroyed => /\ done.calls = 1
                    /\ action.timer_sigterm = 0 /\ action.timer_sigkill = 0
                    /\ ~child_watch

C9_Witness ==
    /\ pc = "done"
    /\ action.async = 1
    /\ done.calls = 1
    /\ done.tries = 2
    /\ destroyed

\* C10: send_command on a disconnected session returns the connection error,
\* and with no operation given the invalid-argument error; in both cases
\* nothing is transmitted and call_id keeps its value; no command is ever
\* transmitted while the session state is disconnected.
C10_SendRefused ==
    /\ (api.fn = "send" /\ api.pre_state = "disconnected") =>
          /\ api.rc = -ENOTCONN
          /\ ~api.transmitted
          /\ stonith.call_id = api.pre_call_id
    /\ (api.fn = "send" /\ api.pre_state # "disconnected" /\ api.op = NULL) =>
          /\ api.rc = -EINVAL
          /\ ~api.transmitted
          /\ stonith.call_id = api.pre_call_id
    /\ ~net.bad
    /\ (api.fn = "send" /\ api.transmitted) => api.pre_state # "disconnected"

C10_Witness ==
    /\ api.fn = "send"
    /\ api.pre_state = "disconnected"
    /\ api.rc = -ENOTCONN
    /\ net.sent = 1
    /\ stonith.call_id = 2

SyncExchange == api.fn = "send" /\ api.transmitted /\ "st_opt_sync_call" \in api.opts

\* the reply carries the call id that was just sent
ReplyMatches == api.reply.id = stonith.call_id

\* C12: a synchronous send_command hands the reply to the caller iff the
\* reply's call id is the one just sent, discard was not requested and an
\* output slot was given; with a matching id it returns the reply's result
\* code (-ENOMSG when the reply has none); a reply with another, an absent or a
\* non-positive call id gives -ENOMSG and no payload.
C12_SyncReply ==
    SyncExchange =>
        /\ (api.output # NULL) <=>
              (ReplyMatches /\ "st_opt_discard_reply" \notin api.opts /\ api.want_output)
        /\ (ReplyMatches /\ api.reply.has_rc) => api.rc = api.reply.rc
        /\ (ReplyMatches /\ ~api.reply.has_rc) => api.rc = -ENOMSG
        /\ ~ReplyMatches => (api.rc = -ENOMSG /\ api.output = NULL)

C12_Witness ==
    /\ SyncExchange
    /\ ReplyMatches
    /\ api.reply.has_rc
    /\ api.rc = -EINVAL
    /\ api.output = "reply"

\* the call id and result stonith_perform_callback reads from a reply
MsgCallId(msg) == IF msg.has_id THEN msg.id ELSE 0
MsgRc(msg) == IF msg.has_rc THEN msg.rc ELSE pcmk_ok

\* how often the callback registered for call c was invoked
EntryCalls(inv, c) ==
    Cardinality({ i \in 1 .. Len(inv) : inv[i].kind = "entry" /\ inv[i].call_id = c })

\* an asynchronous command that went out returns its call id and no payload
AsyncSendReturnsId ==
    (api.fn = "send" /\ api.transmitted /\ "st_opt_sync_call" \notin api.opts) =>
        /\ api.rc = stonith.call_id
        /\ api.rc = net.req.call_id
        /\ api.output = NULL

\* a reply for a positive call id that has an entry in the table
PendingReply(msg) ==
    /\ msg \in ReplyMessages
    /\ MsgCallId(msg) \in 1 .. MaxRegId
    /\ registry[MsgCallId(msg)].present

\* the entries of the other calls stay as they are
OthersUntouched(c) ==
    \A k \in RegKeys \ {c} : registry'[k] = registry[k] /\ sources'[k] = sources[k]

\* C13 as stated: the callback registered for the reply's call id is invoked
\* exactly once, whatever it was registered with.
C13_Original ==
    /\ []AsyncSendReturnsId
    /\ [][\A msg \in Messages :
            (PendingReply(msg) /\ Dispatch(msg)) =>
                /\ EntryCalls(invoked', MsgCallId(msg)) = 1
                /\ \A k \in RegKeys \ {MsgCallId(msg)} : EntryCalls(invoked', k) = 0
                /\ OthersUntouched(MsgCallId(msg))]_vars

\* C13 (amended): send_command without the synchronous option returns the
\* allocated call id and no payload; when a reply for a call id with a
\* registered callback is dispatched, that callback and no other call's is
\* invoked, exactly once if the reply reports success or the callback was not
\* registered success-only and not at all otherwise, whichever other calls are
\* pending and in whatever order their replies arrive.
C13_AsyncReplyByCallId ==
    /\ []AsyncSendReturnsId
    /\ [][\A msg \in Messages :
            (PendingReply(msg) /\ Dispatch(msg)) =>
                /\ EntryCalls(invoked', MsgCallId(msg)) =
                      IF MsgRc(msg) = pcmk_ok \/ ~registry[MsgCallId(msg)].only_success
                      THEN 1 ELSE 0
                /\ \A k \in RegKeys \ {MsgCallId(msg)} : EntryCalls(invoked', k) = 0
                /\ OthersUntouched(MsgCallId(msg))]_vars

\* the reply for call 2 overtook the one for call 1, which is still pending
C13_Witness ==
    /\ api.fn = "dispatch"
    /\ net.sent >= 1
    /\ EntryCalls(invoked, 2) = 1
    /\ registry[1].present
    /\ ~registry[2].present

\* stonith_send_command got as far as crm_ipc_send
Exchange == api.fn = "send" /\ (api.transmitted \/ api.rc = -ECOMM)

\* the exchange ended at the label done: the command was synchronous or the
\* send failed
ReachedDone == Exchange /\ ("st_opt_sync_call" \in api.opts \/ ~api.transmitted)

\* on a disconnected session every send_command is refused at once: nothing
\* is transmitted and nothing reconnects
RefusedWhileDisconnected ==
    [][(stonith.state = "disconnected" /\ stonith_send_command) =>
          /\ api'.rc = -ENOTCONN
          /\ net'.sent = net.sent
          /\ UNCHANGED <<stonith, native, ipc_up>>]_vars

\* C14 as stated: after any exchange at whose end the channel is no longer
\* connected the session is disconnected.
C14_Original ==
    /\ []((Exchange /\ ~api.connected) => stonith.state = "disconnected")
    /\ RefusedWhileDisconnected

\* C14 (amended): after a synchronous exchange or a failed send at whose end
\* the channel is no longer connected the session state is disconnected, and
\* every later send_command is refused with -ENOTCONN without transmitting or
\* reconnecting; an asynchronous command that went out returns its call id
\* without looking at the channel and leaves the session state as it was.
C14_DisconnectDetected ==
    /\ []((ReachedDone /\ ~api.connected) => stonith.state = "disconnected")
    /\ []((Exchange /\ ~ReachedDone) => stonith.state = api.pre_state)
    /\ RefusedWhileDisconnected

C14_Witness ==
    /\ ReachedDone
    /\ api.transmitted
    /\ ~api.connected
    /\ api.pre_state = "connected_command"
    /\ stonith.state = "disconnected"
    /\ api.rc = pcmk_ok

\* C15: connect returns ok only when a register reply with a client token was
\* received, and then the token is stored and the session is connected; it
\* returns -ENOTCONN when the channel cannot be opened and -EPROTO when the
\* reply is absent, is not a register reply or lacks a token; after every
\* failed connect the session is disconnected with no token and no channel.
C15_Signon ==
    api.fn = "signon" =>
        /\ (api.rc = pcmk_ok) <=> (api.op = "registered")
        /\ api.rc = pcmk_ok =>
              /\ stonith.state = "connected_command"
              /\ native.token = "token"
              /\ native.ipc # NULL
        /\ api.op = "no_channel" => api.rc = -ENOTCONN
        /\ api.op \in {"no_reply", "not_register", "no_token"} => api.rc = -EPROTO
        /\ api.rc # pcmk_ok =>
              /\ stonith.state = "disconnected"
              /\ native = NoNative

\* a second connect on a connected session got a register reply without token
C15_Witness ==
    /\ api.fn = "signon"
    /\ api.op = "no_token"
    /\ api.rc = -EPROTO
    /\ api.pre_state = "connected_command"
    /\ stonith.state = "disconnected"
    /\ native = NoNative

\* after disconnect the channel is closed, the token is gone and the state is
\* disconnected
SignedOff ==
    api.fn = "signoff" =>
        /\ api.rc = pcmk_ok
        /\ stonith.state = "disconnected"
        /\ native = NoNative
        /\ ~ipc_up

\* C16: from any session state, after disconnect the channel is closed, the
\* token is discarded and the state is disconnected; disconnect never touches
\* the callback registry, its timers or the subscriber list, and a second
\* disconnect returns ok and leaves everything as the first left it.
C16_SignoffIdempotent ==
    /\ []SignedOff
    /\ [][Signoff => UNCHANGED registry_vars]_vars
    /\ [][(api.fn = "signoff" /\ Signoff) =>
            /\ api'.rc = pcmk_ok
            /\ UNCHANGED <<stonith, native, ipc_up, net, registry_vars>>]_vars

\* a second disconnect of a session that had subscribed while connected and
\* has a callback with a fallback timer pending
C16_Witness ==
    /\ api.fn = "signoff"
    /\ api.pre_state = "disconnected"
    /\ net.ctl["st_notify_fence"] = "activate"
    /\ notify_list # << >>
    /\ registry[1].present
    /\ sources[1] # << >>

KnownTypes == {T_STONITH_NG, T_STONITH_NOTIFY, T_STONITH_TIMEOUT_VALUE}

\* the message is unparsable or its declared type is not a known one
Dropped(msg) == ~msg.parsed \/ msg.type \notin KnownTypes

\* the last step dispatched a message that was dropped
WasDropped == api.fn = "dispatch" /\ api.op \notin KnownTypes

\* the subscribers of the event a notification announces
Subscribers(msg) ==
    { i \in 1 .. Len(notify_list) : notify_list[i].event = msg.subt }

\* C17: dispatching an unparsable message, or a parsable one whose type is
\* none of command reply, notification or timeout refresh, invokes no callback
\* and no subscriber and leaves session state, registry, fallback timers and
\* subscriber list unchanged; the reply or notification dispatched next is
\* still delivered.
C17_DroppedMessages ==
    /\ [][\A msg \in Messages :
            (Dropped(msg) /\ Dispatch(msg)) =>
                /\ invoked' = << >>
                /\ UNCHANGED <<stonith, native, ipc_up, net, registry_vars>>]_vars
    /\ [][\A msg \in Messages :
            (WasDropped /\ PendingReply(msg) /\ Dispatch(msg)) =>
                /\ EntryCalls(invoked', MsgCallId(msg)) =
                      IF MsgRc(msg) = pcmk_ok \/ ~registry[MsgCallId(msg)].only_success
                      THEN 1 ELSE 0
                /\ ~registry'[MsgCallId(msg)].present]_vars
    /\ [][\A msg \in NotifyMessages :
            (WasDropped /\ Dispatch(msg)) =>
                Len(invoked') = Cardinality(Subscribers(msg))]_vars

\* a message of an unknown type was dropped while the session was connected,
\* with a call pending, its timer armed, the default callback set and a
\* subscriber listed
C17_Witness ==
    /\ api.fn = "dispatch"
    /\ api.op = "unknown"
    /\ stonith.state = "connected_command"
    /\ registry[1].present
    /\ sources[1] # << >>
    /\ op_callback # NULL
    /\ notify_list # << >>

\* a synchronous send_command that got a reply without a call id, or with one
\* that is not positive, returns -ENOMSG and hands no payload over
BadSyncReplyRefused ==
    (/\ api.fn = "send"
     /\ api.transmitted
     /\ "st_opt_sync_call" \in api.opts
     /\ api.reply.id <= 0) =>
        /\ api.rc = -ENOMSG
        /\ api.output = NULL

\* a dispatched reply whose call id is absent or not positive
BadReply(msg) == msg \in ReplyMessages /\ MsgCallId(msg) <= 0

\* C18: a reply whose call id is absent or <= 0 is a protocol violation on
\* both inbound paths: a synchronous send_command returns an error for it,
\* and dispatch delivers it to no callback, neither a per-call entry nor the
\* session-wide default callback, and leaves the registry unchanged.
C18_BadReplyRejected ==
    /\ []BadSyncReplyRefused
    /\ [][\A msg \in Messages :
            (BadReply(msg) /\ Dispatch(msg)) =>
                /\ invoked' = << >>
                /\ UNCHANGED <<registry, sources>>]_vars

\* C19: register_callback with a negative call id invokes the callback at
\* once, once, with that code as call id and as result and with the user data
\* given, unless report-only-success is set, in which case it is not invoked;
\* either way it returns FALSE, stores no entry and arms no timer.
C19_FailedCallCallback ==
    [][\A call_id \in RegisterIds, timeout \in RegisterTimeouts,
          options \in RegisterOptions :
            (call_id < 0 /\ AddCallback(call_id, timeout, options, UserData(call_id))) =>
                /\ invoked' =
                      IF "st_opt_report_only_success" \in options
                      THEN << >>
                      ELSE << [kind |-> "entry", call_id |-> call_id, rc |-> call_id,
                               userdata |-> UserData(call_id), event |-> NULL] >>
                /\ api'.rc = 0
                /\ UNCHANGED <<registry, sources, op_callback>>]_vars

\* the callback of a call that failed with -ENOTCONN was invoked with that
\* code while another call was pending with its timer armed
C19_Witness ==
    /\ api.fn = "add_callback"
    /\ api.call_id = 0 - ENOTCONN
    /\ Len(invoked) = 1
    /\ invoked[1].call_id = 0 - ENOTCONN
    /\ invoked[1].rc = 0 - ENOTCONN
    /\ registry[1].present
    /\ sources[1] # << >>

\* C20: when a reply for call id c is dispatched and an entry for c is
\* registered, the entry is removed from the registry and its fallback timer
\* is cancelled, and its callback is invoked, once, with the reply's result
\* code and the registered user data iff the result is success or the entry
\* is not success-only.
C20_ReplyConsumesEntry ==
    [][\A msg \in Messages :
        (PendingReply(msg) /\ Dispatch(msg)) =>
            LET c == MsgCallId(msg)
                calls == { i \in 1 .. Len(invoked') : invoked'[i].kind = "entry" }
            IN /\ registry'[c] = NoEntry
               /\ sources'[c] = << >>
               /\ IF MsgRc(msg) = pcmk_ok \/ ~registry[c].only_success
                  THEN /\ Cardinality(calls) = 1
                       /\ \A i \in calls :
                            /\ invoked'[i].call_id = c
                            /\ invoked'[i].rc = MsgRc(msg)
                            /\ invoked'[i].userdata = registry[c].user_data
                  ELSE calls = {}]_vars

\* a failed reply consumed a pending entry that was not success-only: the
\* callback got the failure, the entry and its timer are gone
C20_Witness ==
    /\ api.fn = "dispatch"
    /\ \E c \in 1 .. MaxRegId :
          /\ ~registry[c].present
          /\ sources[c] = << >>
          /\ Len(invoked) >= 1
          /\ invoked[1].kind = "entry"
          /\ invoked[1].call_id = c
          /\ invoked[1].rc = 0 - EINVAL
          /\ invoked[1].userdata = UserData(c)

\* how often the session-wide default callback was invoked
GlobalCalls(inv) == Cardinality({ i \in 1 .. Len(inv) : inv[i].kind = "global" })

\* C21: the session-wide default callback is invoked for a dispatched reply
\* only when no specific entry is registered for the reply's call id; a reply
\* matched by a specific entry invokes that entry's callback and not the
\* default callback.
C21_DefaultOnlyOnMiss ==
    [][\A msg \in Messages :
        (PendingReply(msg) /\ Dispatch(msg)) => GlobalCalls(invoked') = 0]_vars

\* the fallback timer of a pending call: one source, of the entry's interval
TimerOfEntry ==
    \A k \in 1 .. MaxRegId :
        /\ sources[k] # << >> => registry[k].present
        /\ registry[k].present =>
              sources[k] = IF registry[k].timer > 0 THEN << registry[k].timer >>
                           ELSE << >>

\* registering a callback for a positive call id arms one timer of
\* timeout + 60 seconds when timeout > 0 and none otherwise
ArmsFallback ==
    [][\A call_id \in 1 .. MaxRegId, timeout \in RegisterTimeouts,
          options \in RegisterOptions :
            (/\ api'.fn = "add_callback"
             /\ api'.call_id = call_id
             /\ AddCallback(call_id, timeout, options, UserData(call_id))) =>
                sources'[call_id] = IF timeout > 0
                                    THEN << (timeout + 60) * 1000 >>
                                    ELSE << >>]_vars

\* C22 as stated: when the fallback timer of a pending call fires, the
\* registered callback is invoked with the time-out failure.
C22_Original ==
    [][\A k \in 1 .. MaxRegId :
        (registry[k].present /\ TimerFires(k)) =>
            /\ EntryCalls(invoked', k) = 1
            /\ \A i \in 1 .. Len(invoked') :
                  invoked'[i].kind = "entry" => invoked'[i].rc = 0 - ETIME]_vars

\* the timer of call k fires: the entry and the timer are gone, and the
\* callback got -ETIME unless the entry is success-only
FallbackResolves ==
    [][\A k \in 1 .. MaxRegId :
        (registry[k].present /\ TimerFires(k)) =>
            /\ registry'[k] = NoEntry
            /\ sources'[k] = << >>
            /\ EntryCalls(invoked', k) = IF registry[k].only_success THEN 0 ELSE 1
            /\ \A i \in 1 .. Len(invoked') :
                  invoked'[i].kind = "entry" =>
                      /\ invoked'[i].rc = 0 - ETIME
                      /\ invoked'[i].userdata = registry[k].user_data]_vars

\* C22 (amended): registering a callback for a positive call id with
\* timeout > 0 arms a fallback timer at timeout + 60 seconds, and none when
\* timeout <= 0; when the timer fires before a reply is dispatched the entry
\* is removed, and its callback is invoked with the time-out failure for
\* that call id unless the entry is success-only; so the timer of a
\* registration with a timeout never stays armed for ever, even if the daemon
\* never answers: the entry is removed, or replaced by the caller.
C22_FallbackTimer ==
    /\ []TimerOfEntry
    /\ ArmsFallback
    /\ FallbackResolves
    /\ \A k \in 1 .. MaxRegId :
          (registry[k].present /\ registry[k].timer > 0) ~> (sources[k] = << >>)

\* the timer of call 1 fired: its callback got -ETIME, entry and timer are gone
C22_Witness ==
    /\ api.fn = "timer"
    /\ api.call_id = 1
    /\ EntryCalls(invoked, 1) = 1
    /\ invoked[1].rc = 0 - ETIME
    /\ ~registry[1].present
    /\ sources[1] = << >>

\* remove_callback for one positive call id takes out that entry and its
\* timer and nothing else
RemovesOne ==
    [][\A k \in 1 .. MaxRegId :
        RemoveCallback(k, FALSE) =>
            /\ registry'[k] = NoEntry
            /\ sources'[k] = << >>
            /\ OthersUntouched(k)
            /\ UNCHANGED op_callback
            /\ api'.rc = pcmk_ok]_vars

\* a reply that comes for a call right after its callback was removed goes to
\* the default callback, if installed, and to nobody else
ReplyAfterRemoval ==
    [][\A msg \in ReplyMessages :
        (/\ api.fn = "del_callback"
         /\ api.call_id >= 1
         /\ MsgCallId(msg) = api.call_id
         /\ Dispatch(msg)) =>
            /\ EntryCalls(invoked', MsgCallId(msg)) = 0
            /\ Len(invoked') = GlobalCalls(invoked')
            /\ GlobalCalls(invoked') = IF op_callback # NULL THEN 1 ELSE 0
            /\ UNCHANGED registry_vars]_vars

\* after remove_callback(ALL) no entry, no timer and no default callback is
\* left
RemovesAll ==
    api.fn = "del_all_callbacks" =>
        /\ registry = EmptyRegistry
        /\ sources = NoSources
        /\ op_callback = NULL
        /\ api.rc = pcmk_ok

\* the emptied registry takes new registrations
UsableAfterRemoveAll ==
    [][\A call_id \in 1 .. MaxRegId, timeout \in RegisterTimeouts,
          options \in RegisterOptions :
            (/\ api.fn = "del_all_callbacks"
             /\ AddCallback(call_id, timeout, options, UserData(call_id))) =>
                /\ registry'[call_id].present
                /\ registry'[call_id].user_data = UserData(call_id)
                /\ api'.rc = 1]_vars

\* C23: remove_callback for one call id removes that entry and cancels its
\* fallback timer, after which a reply for that id reaches only the default
\* callback (if installed) and no fallback timer fires for it;
\* remove_callback(ALL) removes every entry, cancels every fallback timer and
\* leaves an empty, usable registry.
C23_RemoveCallback ==
    /\ RemovesOne
    /\ [](api.fn = "del_callback" /\ api.call_id >= 1 => ~ENABLED TimerFires(api.call_id))
    /\ ReplyAfterRemoval
    /\ []RemovesAll
    /\ UsableAfterRemoveAll

\* the callback of call 1 was removed while call 2 is pending with its timer
\* and the default callback is installed
C23_Witness ==
    /\ api.fn = "del_callback"
    /\ api.call_id = 1
    /\ api.op = "found"
    /\ ~registry[1].present
    /\ sources[1] = << >>
    /\ registry[2].present
    /\ sources[2] # << >>
    /\ op_callback # NULL

\* the entry a timeout-refresh message is about, if it opted into updates
OptedIn(msg) ==
    /\ Lookup(registry, MsgCallId(msg)).present
    /\ Lookup(registry, MsgCallId(msg)).allow_timeout_updates

\* the fallback timer of the message's call is the one of msg.timeout + 60
\* seconds and no other; everything else stays
Rearmed(msg) ==
    /\ sources'[MsgCallId(msg)] = << (msg.timeout + 60) * 1000 >>
    /\ registry'[MsgCallId(msg)] =
          [registry[MsgCallId(msg)] EXCEPT !.timer = (msg.timeout + 60) * 1000]
    /\ OthersUntouched(MsgCallId(msg))

\* C24 as stated: the timer is re-armed iff an entry is registered and opted
\* into timeout updates, whatever the new timeout.
C24_Original ==
    [][\A msg \in RefreshMessages :
        Dispatch(msg) =>
            /\ invoked' = << >>
            /\ UNCHANGED op_callback
            /\ IF OptedIn(msg) THEN Rearmed(msg)
               ELSE UNCHANGED <<registry, sources>>]_vars

\* C24 (amended): a timeout-refresh message for call id c with new timeout t
\* re-arms the fallback timer to t + 60 seconds (replacing the previous
\* timer, never adding a second one) iff an entry for c is registered and
\* opted into timeout updates and t > 0; for an unknown call id, an entry
\* that did not opt in or t <= 0, the registry and all timers are unchanged;
\* no callback is invoked in any case.
C24_TimeoutRefresh ==
    [][\A msg \in RefreshMessages :
        Dispatch(msg) =>
            /\ invoked' = << >>
            /\ UNCHANGED op_callback
            /\ IF OptedIn(msg) /\ msg.timeout > 0 THEN Rearmed(msg)
               ELSE UNCHANGED <<registry, sources>>]_vars

\* a refresh to 2 seconds replaced the timer of call 1, registered with 1
C24_Witness ==
    /\ api.fn = "dispatch"
    /\ api.op = T_STONITH_TIMEOUT_VALUE
    /\ registry[1].present
    /\ registry[1].allow_timeout_updates
    /\ registry[1].timer = 62000
    /\ sources[1] = << 62000 >>

\* the callbacks a subscriber may come with
Callbacks == NotifyFns \cup {NULL}

\* the pair is in the subscriber list
Listed(event, callback) ==
    \E i \in 1 .. Len(notify_list) :
        notify_list[i].event = event /\ notify_list[i].notify = callback

\* the list holds a subscriber of the event with the same callback, or with no
\* callback, or the new subscriber comes without one
Clashes(event, callback) ==
    \E i \in 1 .. Len(notify_list) :
        /\ notify_list[i].event = event
        /\ (notify_list[i].notify = callback
            \/ notify_list[i].notify = NULL
            \/ callback = NULL)

\* no (event, callback) pair occurs twice in the subscriber list
NoDuplicates ==
    \A i, j \in 1 .. Len(notify_list) : notify_list[i] = notify_list[j] => i = j

\* C25 as stated: subscribe is rejected exactly when the same pair is listed.
C25_Original ==
    /\ []NoDuplicates
    /\ [][\A event \in Events, callback \in Callbacks, send_ok \in BOOLEAN :
            AddNotification(event, callback, send_ok) =>
                IF Listed(event, callback)
                THEN api'.rc = 0 - ENOTUNIQ /\ UNCHANGED notify_list
                ELSE /\ api'.rc = pcmk_ok
                     /\ notify_list' =
                          Append(notify_list, [event |-> event, notify |-> callback])]_vars

\* C25 (amended): subscribe(event, callback) is rejected with the
\* duplicate-registration error exactly when the list holds a subscriber of
\* the same event whose callback is the same, or is null, or when the new
\* callback is null; then the list is unchanged; otherwise the pair is
\* appended at the end; hence no (event, callback) pair occurs twice.
C25_Subscribe ==
    /\ []NoDuplicates
    /\ [][\A event \in Events, callback \in Callbacks, send_ok \in BOOLEAN :
            AddNotification(event, callback, send_ok) =>
                IF Clashes(event, callback)
                THEN api'.rc = 0 - ENOTUNIQ /\ UNCHANGED <<notify_list, net>>
                ELSE /\ api'.rc = pcmk_ok
                     /\ notify_list' =
                          Append(notify_list, [event |-> event, notify |-> callback])]_vars

\* a second subscription of notify1 to fencing events was rejected; notify2
\* and a subscriber of the other event are listed as well
C25_Witness ==
    /\ api.fn = "add_notification"
    /\ api.rc = 0 - ENOTUNIQ
    /\ api.op = "st_notify_fence"
    /\ api.output = "notify1"
    /\ Len(notify_list) = 3
    /\ Listed("st_notify_fence", "notify1")
    /\ Listed("st_notify_fence", "notify2")
    /\ Listed("st_notify_disconnect", "notify1")

\* the position of the first subscriber of the event, 0 when there is none
FirstOf(event) ==
    IF \E i \in 1 .. Len(notify_list) : notify_list[i].event = event
    THEN CHOOSE i \in 1 .. Len(notify_list) :
            /\ notify_list[i].event = event
            /\ \A j \in 1 .. (i - 1) : notify_list[j].event # event
    ELSE 0

\* the list without the element at position i, the others in their order
Without(list, i) == SubSeq(list, 1, i - 1) \o SubSeq(list, i + 1, Len(list))

\* C26: unsubscribe(event) sends a deactivate control message for the event
\* to the daemon whether or not a subscriber matches (when the session is not
\* disconnected), then removes exactly the first subscriber in registration
\* order whose event name equals the event, ignoring its callback reference,
\* and leaves all other subscribers and their order unchanged.
C26_Unsubscribe ==
    [][\A event \in Events, send_ok \in BOOLEAN :
        DelNotification(event, send_ok) =>
            /\ api'.rc = pcmk_ok
            /\ (stonith.state # "disconnected" /\ ipc_up /\ send_ok) =>
                  /\ net'.ctl[event] = "deactivate"
                  /\ \A e \in Events \ {event} : net'.ctl[e] = net.ctl[e]
            /\ stonith.state = "disconnected" => UNCHANGED net
            /\ notify_list' = IF FirstOf(event) = 0 THEN notify_list
                              ELSE Without(notify_list, FirstOf(event))]_vars

\* on a connected session fencing events were unsubscribed: a subscriber of
\* them is still listed, so an earlier one was removed; the subscriber of the
\* other event stays in front
C26_Witness ==
    /\ api.fn = "del_notification"
    /\ api.op = "st_notify_fence"
    /\ stonith.state # "disconnected"
    /\ net.ctl["st_notify_fence"] = "deactivate"
    /\ notify_list = << [event |-> "st_notify_disconnect", notify |-> "notify1"],
                        [event |-> "st_notify_fence", notify |-> "notify2"] >>

\* the callbacks of the subscribers of event s, in registration order
CallbacksOf(s) ==
    LET Wanted(e) == e.event = s /\ e.notify # NULL
        sel == SelectSeq(notify_list, Wanted)
    IN [i \in 1 .. Len(sel) |-> sel[i].notify]

\* the callbacks that were invoked, in the order of their invocation
CallbacksInvoked(inv) == [i \in 1 .. Len(inv) |-> inv[i].userdata]

\* C27: dispatching a notification with subtype s invokes, before dispatch
\* returns, every subscriber (that has a callback) whose registered event
\* name equals s exactly once, in registration order, and invokes no
\* subscriber whose event name differs; each notification is fanned out
\* completely within its own dispatch, so successive notifications are
\* fanned out in the order they are dispatched.
C27_FanOut ==
    [][\A msg \in NotifyMessages :
        Dispatch(msg) =>
            /\ CallbacksInvoked(invoked') = CallbacksOf(msg.subt)
            /\ \A i \in 1 .. Len(invoked') :
                  invoked'[i].kind = "notify" /\ invoked'[i].event = msg.subt
            /\ UNCHANGED <<stonith, native, net, registry_vars>>]_vars

\* a fencing notification went to notify2 and then to notify1, as they had
\* subscribed, and not to the subscriber of the other event between them
C27_Witness ==
    /\ api.fn = "dispatch"
    /\ api.op = T_STONITH_NOTIFY
    /\ notify_list = << [event |-> "st_notify_fence", notify |-> "notify2"],
                        [event |-> "st_notify_disconnect", notify |-> "notify1"],
                        [event |-> "st_notify_fence", notify |-> "notify1"] >>
    /\ CallbacksInvoked(invoked) = << "notify2", "notify1" >>
    /\ \A i \in 1 .. Len(invoked) : invoked[i].event = "st_notify_fence"

\* the position of the first piece x in s, 0 when there is none
FirstAt(s, x) ==
    IF \E i \in 1 .. Len(s) : s[i] = x
    THEN CHOOSE i \in 1 .. Len(s) : s[i] = x /\ \A j \in 1 .. (i - 1) : s[j] # x
    ELSE 0

RECURSIVE BlobLines(_)
\* the lines of a blob as its reader sees them: cut after each newline; what
\* follows the last newline is a line of its own
BlobLines(blob) ==
    IF blob = << >> THEN << >>
    ELSE IF FirstAt(blob, "\n") = 0 THEN << blob >>
    ELSE << SubSeq(blob, 1, FirstAt(blob, "\n")) >>
         \o BlobLines(SubSeq(blob, FirstAt(blob, "\n") + 1, Len(blob)))

\* the key of a line: what stands before its first "="
LineKey(line) ==
    IF FirstAt(line, "=") = 0 THEN line ELSE SubSeq(line, 1, FirstAt(line, "=") - 1)

\* a key of the reserved kinds: a pcmk_ option, a cluster meta attribute, the
\* feature set
Reserved(key) ==
    \/ \E i \in 1 .. Len(key) : key[i] \in {"pcmk_", "CRM_meta"}
    \/ key = << "crm_feature_set" >>

\* the action name the blob is to carry: the substitute configured for the
\* requested action, the requested one without
ActionSent ==
    IF fcall.has_table /\ ActionKey(fcall.action) \in DOMAIN fcall.device_args
    THEN fcall.device_args[ActionKey(fcall.action)]
    ELSE fcall.action

C29_AgentTimeoutNotRetried ==
    (/\ last.kind = "exit"
     /\ last.async = 1
     /\ last.lts = 0
     /\ last.signo = 0
     /\ last.code > 0
     /\ strstr(last.err, TimedOutPhrase)
     /\ last.rc = -ETIMEDOUT) =>
        /\ pc = "done"
        /\ action.tries = last.tries

\* the tracking data of an action record is in its reset state
TrackingReset(a) ==
    /\ a.timer_sigterm = 0
    /\ a.timer_sigkill = 0
    /\ a.fd_stdout = 0
    /\ a.fd_stderr = 0
    /\ a.error = {}
    /\ a.rc = 0
    /\ a.last_timeout_signo = 0

\* no escalation timer is armed
TimersCancelled ==
    /\ timers = NoTimers
    /\ action.timer_sigterm = 0
    /\ action.timer_sigkill = 0

\* once the child-exit handler ran (or no attempt is in the mainloop) both
\* timers are cancelled; between attempts only the descriptors kept in the
\* record are open, and a finished action has none left
ReleasedOnExit ==
    /\ (pc # "mainloop" \/ child.st = "reaped") => TimersCancelled
    /\ pc \in {"exec", "done"} => open_fds = HeldFds(action)
    /\ pc = "done" => open_fds = {}

\* an escalation signal is only sent while the child-exit handler is pending
NoSignalAfterExitHandler ==
    [][(st_child_term \/ st_child_kill) => (child_watch /\ child.st # "reaped")]_vars

\* every attempt, the first and every retry, starts from reset tracking data
AttemptStartsReset ==
    [][/\ ForkOk => /\ TrackingReset(action') /\ action'.pid = 1
                    /\ open_fds' = LocalFds
       /\ ForkFail => /\ TrackingReset(action') /\ action'.pid = 0
                      /\ open_fds' = {}]_vars

\* C30: on every exit path of an attempt the escalation timers and the
\* descriptors held by the action are released: after the child-exit handler
\* ran both timers are cancelled and no signal is sent for that child, a
\* finished action holds no descriptor, and every attempt (each retry
\* included) starts with timers, descriptors, output, result code, pid and
\* last timeout signal reset.
C30_ReleasedOnEveryPath ==
    /\ []ReleasedOnExit
    /\ NoSignalAfterExitHandler
    /\ AttemptStartsReset

\* a retry of an asynchronous action has just forked: the attempt before it
\* had stored both descriptors and ended in the child-exit handler
C30_Witness ==
    /\ pc = "write"
    /\ action.async = 1
    /\ action.tries = 2
    /\ action.pid = 1
    /\ TrackingReset(action)
    /\ open_fds = LocalFds

\* C31 as stated: after the fallback timer of a registered call fired, the
\* entry for that call id is still registered and its timer still armed.
C31_Original ==
    [][\A k \in 1 .. MaxRegId :
        (registry[k].present /\ TimerFires(k)) =>
            /\ registry'[k].present
            /\ sources'[k] # << >>]_vars

\* the firing of the timer of call k takes the entry and the timer of k out
\* and leaves the other entries alone
TimerRemovesEntry ==
    [][\A k \in 1 .. MaxRegId :
        (registry[k].present /\ TimerFires(k)) =>
            /\ ~registry'[k].present
            /\ sources'[k] = << >>
            /\ OthersUntouched(k)]_vars

\* an entry leaves the table only through a timer that fires for its call
\* id, a dispatched message or remove_callback
RemovalCauses ==
    [][\A k \in 1 .. MaxRegId :
        (registry[k].present /\ ~registry'[k].present) =>
            \/ api'.fn = "timer" /\ api'.call_id = k
            \/ api'.fn = "dispatch" /\ api'.op = T_STONITH_NG
            \/ api'.fn = "del_callback" /\ api'.call_id = k
            \/ api'.fn = "del_all_callbacks"]_vars

\* C31 (amended): the firing of a fallback timer removes the callback entry
\* of a positive call id, as a genuine reply and remove_callback do: after the
\* timer fired and the synthesized time-out was delivered, the entry for that
\* call id is no longer registered and no timer is armed for it, so the timer
\* cannot fire for that registration again.
C31_TimerRemovesEntry ==
    /\ TimerRemovesEntry
    /\ RemovalCauses
    /\ [](\A k \in 1 .. MaxRegId : ~registry[k].present => ~ENABLED TimerFires(k))

\* the timer of call 2 fired for a success-only entry: nothing was invoked,
\* the entry and its timer are gone, the entry of call 1 is still there
C31_Witness ==
    /\ api.fn = "timer"
    /\ api.call_id = 2
    /\ invoked = << >>
    /\ ~registry[2].present
    /\ sources[2] = << >>
    /\ registry[1].present
    /\ sources[1] # << >>

\* make_args returned for a call with a target node and device arguments
VictimCall ==
    /\ fcall.fn = "make_args"
    /\ fcall.returned
    /\ fcall.victim # NoValue
    /\ fcall.has_table

\* param: the host-argument override of the device, port without one
HostParam ==
    IF STONITH_ATTR_HOSTARG \in DOMAIN fcall.device_args
    THEN fcall.device_args[STONITH_ATTR_HOSTARG]
    ELSE << "port" >>

\* alias: the port-map entry of the target, the target name without one
HostAlias == IF fcall.alias_of # NoValue THEN fcall.alias_of ELSE fcall.victim

\* the device arguments give param an explicit value
ExplicitParam ==
    /\ HostParam \in DOMAIN fcall.device_args
    /\ fcall.device_args[HostParam] # << "dynamic" >>

\* the condition the claim gives for the victim line
VictimLineDue ==
    /\ fcall.agent # << "fence_legacy" >>
    /\ HostParam # << "none" >>
    /\ ~ExplicitParam

\* the lines of the blob that read key=value
LinesOf(key, value) ==
    LET lines == BlobLines(fcall.arg_list)
    IN { i \in 1 .. Len(lines) : lines[i] = key \o << "=" >> \o value \o << "\n" >> }

\* the lines of the blob with this key
LinesWithKey(key) ==
    LET lines == BlobLines(fcall.arg_list)
    IN { i \in 1 .. Len(lines) : LineKey(lines[i]) = key }

\* the keys of the device arguments that are handed on as they are
HandedOn == { k \in DOMAIN fcall.device_args : k # << "action" >> /\ ~Reserved(k) }

\* what the claim says of the blob, for a given condition of the victim line
VictimSection(due) ==
    /\ LinesOf(<< "nodename" >>, fcall.victim) # {}
    /\ (LinesOf(<< "nodeid" >>, << ToString(fcall.victim_nodeid) >>) # {})
          <=> (fcall.victim_nodeid # 0)
    /\ (LinesOf(HostParam, HostAlias) # {}) <=> due
    /\ ExplicitParam =>
          LinesWithKey(HostParam) \subseteq LinesOf(HostParam, fcall.device_args[HostParam])

\* C32 as stated: the victim line is there iff the agent is not the legacy
\* wrapper, the override is not "none" and param has no explicit value.
C32_Original == VictimCall => VictimSection(VictimLineDue)

\* C32 (amended): with a target node and device arguments the blob has
\* nodename=<target>, has nodeid=<id> iff the node id is nonzero, and has the
\* victim line <param>=<alias> iff the agent is not the legacy wrapper, the
\* override is not "none", param is not itself a filtered key (pcmk_,
\* CRM_meta, crm_feature_set) and the device arguments give param no value or
\* "dynamic"; these lines follow the action line in this order, before the
\* device arguments, and an explicit value of param is never overridden.
C32_VictimArgs ==
    VictimCall =>
        LET lines == BlobLines(fcall.arg_list)
            due == VictimLineDue /\ ~Reserved(HostParam)
            n == IF fcall.victim_nodeid # 0 THEN 1 ELSE 0
            v == IF due THEN 1 ELSE 0
        IN /\ VictimSection(due)
           /\ Len(lines) = 2 + n + v + Cardinality(HandedOn)
           /\ LinesOf(<< "nodename" >>, fcall.victim) = {2}
           /\ fcall.victim_nodeid # 0 => 3 \in LinesWithKey(<< "nodeid" >>)
           /\ due => (2 + n + 1) \in LinesOf(HostParam, HostAlias)

\* node1 with node id 7 behind plug1, the port left to be filled in: the
\* victim line comes before the configured port=dynamic
C32_Witness ==
    /\ VictimCall
    /\ fcall.agent = << "fence_ipmilan" >>
    /\ fcall.victim_nodeid = 7
    /\ fcall.alias_of = << "plug1" >>
    /\ DOMAIN fcall.device_args = { << "port" >> }
    /\ fcall.arg_list = << "action", "=", "reboot", "\n",
                           "nodename", "=", "node1", "\n",
                           "nodeid", "=", "7", "\n",
                           "port", "=", "plug1", "\n",
                           "port", "=", "dynamic", "\n" >>

\* the attempt that just ended was an agent process that exited with status 0
AgentExitedZero ==
    /\ last.kind = "exit"
    /\ last.signo = 0
    /\ last.code = 0

\* C33: the final result of an action (the code passed to the completion
\* callback of an asynchronous action, the code stonith__action_result reads
\* after a synchronous execution) is success only if the agent process of an
\* attempt exited with status 0; an attempt whose pipe, fork or parameter
\* write failed never leaves success behind.
C33_SuccessNeedsExitZero ==
    /\ (done.calls > 0 /\ done.rc = pcmk_ok) => AgentExitedZero
    /\ (pc = "done" /\ action.async = 0 /\ action.tries > 0 /\ action.rc = pcmk_ok)
          => AgentExitedZero

\* the callback of call k runs only in a step that finds its entry and takes
\* it out of the table together with its timer, and then once
InvokedWhenConsumed ==
    [][\A k \in 1 .. MaxRegId :
        /\ EntryCalls(invoked', k) <= 1
        /\ EntryCalls(invoked', k) = 1 =>
              /\ registry[k].present
              /\ ~registry'[k].present
              /\ sources'[k] = << >>]_vars

\* an entry comes into the table only by a registration for its call id
OnlyRegistrationAdds ==
    [][\A k \in 1 .. MaxRegId :
        (~registry[k].present /\ registry'[k].present) =>
            (api'.fn = "add_callback" /\ api'.call_id = k)]_vars

\* a timeout-refresh message invokes nothing and removes nothing
RefreshInvokesNothing ==
    [][\A msg \in RefreshMessages :
        Dispatch(msg) =>
            /\ invoked' = << >>
            /\ \A k \in RegKeys : registry'[k].present = registry[k].present]_vars

\* C34: a callback registered once for a positive call id is invoked at most
\* once, whatever the order of a reply for that id, duplicates of the reply,
\* the firing of its fallback timer and timeout-refresh messages: each
\* invocation consumes the registration, and only a new registration brings
\* the entry back.
C34_AtMostOnce ==
    /\ InvokedWhenConsumed
    /\ OnlyRegistrationAdds
    /\ RefreshInvokesNothing
    /\ [](\A k \in 1 .. MaxRegId : ~registry[k].present => ~ENABLED TimerFires(k))

\* a failed reply for call 2 was dispatched while call 1 is pending with its
\* timer armed: the callback of call 2 ran once and its registration is gone
C34_Witness ==
    /\ api.fn = "dispatch"
    /\ api.op = T_STONITH_NG
    /\ EntryCalls(invoked, 2) = 1
    /\ EntryCalls(invoked, 1) = 0
    /\ invoked[1].rc = 0 - EINVAL
    /\ ~registry[2].present
    /\ sources[2] = << >>
    /\ registry[1].present
    /\ sources[1] # << >>

\* C35: registering a callback with call id 0 only sets the session-wide
\* default callback: whatever registrations, removals and dispatches happen,
\* the keyed table holds no entry for a call id <= 0 and no fallback timer is
\* armed for call id 0.
C35_NoEntryForZero ==
    /\ \A k \in RegKeys : k <= 0 => ~registry[k].present
    /\ sources[0] = << >>

\* the subscribers of an event in the local list
SubscribersOf(event) == { i \in 1 .. Len(notify_list) : notify_list[i].event = event }

\* C36: whenever the session is connected and the local list holds a
\* subscriber of event E, the last control message sent to the fencer for E
\* was an activate; unsubscribing from E while two subscribers of E are
\* registered does not leave a subscriber of E with E deactivated.
C36_ActiveWhileSubscribed ==
    \A e \in Events :
        (stonith.state # "disconnected" /\ SubscribersOf(e) # {}) =>
            net.ctl[e] = "activate"

\* C37: in stonith_send_command the reply document received for a call is,
\* on every path (asynchronous return, matching id, mismatching id,
\* non-positive id, send failure), either released exactly once or handed to
\* the caller: never released twice, never both released and returned, and
\* nothing is released or returned when no document was received.
C37_ReplyReleasedOnce ==
    api.fn = "send" =>
        /\ api.got_reply =>
              \/ api.freed = 1 /\ api.output = NULL
              \/ api.freed = 0 /\ api.output # NULL
        /\ ~api.got_reply => (api.freed = 0 /\ api.output = NULL)

\* C38: for the same agent outcome (exit status, terminating signal, overrun
\* of the timeout) and the same captured stderr, synchronous and asynchronous
\* execution record the same result code on the action: the code a
\* synchronous attempt records is the one stonith_action_async_done records
\* for that outcome.
C38_SameResultBothModes ==
    (last.kind = "exit" /\ last.async = 0) =>
        last.rc = AsyncResult(IF last.killed THEN SIGKILL ELSE 0,
                              last.signo, last.code, last.err)

\* C39: when the mainloop reports the connection destroyed, the session
\* becomes disconnected and its channel handles (ipc, source) are cleared; the
\* synthesized disconnect notification goes exactly once, in registration
\* order, to every subscriber of the disconnect event (that has a callback)
\* and to no other subscriber; the pending callback entries, their fallback
\* timers and the subscriber list are left as they are.
C39_ConnectionDestroyed ==
    /\ [][stonith_connection_destroy =>
            /\ stonith'.state = "disconnected"
            /\ native'.ipc = NULL
            /\ native'.source = NULL
            /\ CallbacksInvoked(invoked') = CallbacksOf(T_STONITH_NOTIFY_DISCONNECT)
            /\ \A i \in 1 .. Len(invoked') :
                  /\ invoked'[i].kind = "notify"
                  /\ invoked'[i].event = T_STONITH_NOTIFY_DISCONNECT
            /\ UNCHANGED <<registry_vars, net>>]_vars
    /\ [](api.fn = "connection_destroy" => ~ENABLED stonith_connection_destroy)

\* the connection of a session was destroyed while call 1 was pending with
\* its timer armed: notify2 and then notify1 got the disconnect notification,
\* as they had subscribed, the subscriber of fencing events did not
C39_Witness ==
    /\ api.fn = "connection_destroy"
    /\ api.pre_state = "connected_command"
    /\ stonith.state = "disconnected"
    /\ CallbacksInvoked(invoked) = << "notify2", "notify1" >>
    /\ \E i \in 1 .. Len(notify_list) :
          notify_list[i].event = "st_notify_fence" /\ notify_list[i].notify # NULL
    /\ registry[1].present
    /\ sources[1] # << >>

\* s ends in suffix
EndsIn(s, suffix) ==
    /\ Len(s) >= Len(suffix)
    /\ SubSeq(s, Len(s) - Len(suffix) + 1, Len(s)) = suffix

\* C40: operation keys round-trip: for every non-empty resource id that does
\* not end in _pre_notify or _post_notify, every non-empty operation name
\* (names with an underscore included) and every interval >= 0, parsing the
\* generated key returns TRUE with that resource id, operation name and
\* interval.
C40_OpKeyRoundTrip ==
    (/\ fcall.fn = "parse_op_key"
     /\ ~EndsIn(fcall.rsc_id, PRE_NOTIFY)
     /\ ~EndsIn(fcall.rsc_id, POST_NOTIFY)) =>
        /\ fcall.parsed.ok
        /\ fcall.parsed.rsc_id = fcall.rsc_id
        /\ fcall.parsed.op_type = fcall.op_type
        /\ fcall.parsed.interval_ms = fcall.interval_ms

====
